---- MODULE Spec2Model ----
(***************************************************************************)
(* Dialogue flow execution engine of MultiRoleChat: the FlowStep store,    *)
(* the session state machine (SessionService), the step executor and the   *)
(* loop/exit controller (FlowEngineService), and template editing          *)
(* (FlowTemplateService).  The database is modelled as tables; every       *)
(* action is one service call, all-or-nothing as the code's                *)
(* db.session.commit() / db.session.rollback() make it.                    *)
(***************************************************************************)
EXTENDS Integers, Sequences, FiniteSets, TLC

\* ------------------------------------------------------------------ bounds
MaxSteps == 2      \* steps per template
MaxMsgs == 4       \* messages per session
MaxSessions == 1   \* sessions created
MaxEdits == 1      \* template edits (update_template / delete_template)
MaxForks == 1      \* branch sessions created
MaxTemplates == 2  \* rows of flow_templates
MaxOrder == 3      \* largest order value a request gives a step
MaxRows == 3       \* rows of the messages table where sessions are forked
MaxForkRows == 4   \* rows of the messages table where a two-message history is forked
MaxLogs == 3       \* rows of step_execution_logs
MaxClock == 1800   \* seconds the clock runs for
MaxDays == 2       \* whole days the clock runs for where logs age

\* ------------------------------------------------------------- conventions
\* Python None / NULL: 0 for an id or a timestamp, "" for a string.
None == 0
NoRef == ""
Absent == -1       \* a key that a parsed JSON dict does not hold
NotANumber == -2   \* a JSON string or null where a number is read

Max(S) == IF S = {} THEN 0 ELSE CHOOSE x \in S : \A y \in S : y <= x

\* SQLite rowid allocation of an INTEGER PRIMARY KEY: largest id in use + 1.
NewId(ids) == Max(ids) + 1

\* ------------------------------------------------------------------- roles
\* The roles table (Role.id, Role.name); the spelling of each role reference
\* is kept so that Role.name.contains(role_ref) can be evaluated.
Chars(s) ==
    CASE s = "host"  -> <<"h", "o", "s", "t">>
      [] s = "guest" -> <<"g", "u", "e", "s", "t">>
      [] s = "ghost" -> <<"g", "h", "o", "s", "t">>
      [] s = "gue"   -> <<"g", "u", "e">>
      [] OTHER       -> <<>>

Roles == { [id |-> 1, name |-> "host"], [id |-> 2, name |-> "guest"] }

RoleRefs == {"host", "guest", "ghost"}

Contains(name, ref) ==
    LET n == Chars(name)
        r == Chars(ref)
    IN \E i \in 0..(Len(n) - Len(r)) : SubSeq(n, i + 1, i + Len(r)) = r

\* Query.first() without ORDER BY: the row with the lowest id.
First(rows) == CHOOSE r \in rows : \A q \in rows : r.id <= q.id

\* ------------------------------------------------------ stored JSON columns
\* A Text column holds NULL or a string; "value" is what json.loads gives.
NullText == [kind |-> "null", value |-> [k |-> "none"]]

LoopText(maxLoops, startRef) ==
    [kind |-> "text",
     value |-> [k |-> "loop", enabled |-> TRUE, max_loops |-> maxLoops,
                loop_start_role_ref |-> startRef]]

ExitText == [kind |-> "text", value |-> [k |-> "exit", type |-> "llm_accept_flag"]]

ParamText(n) == [kind |-> "text", value |-> [k |-> "param", n |-> n]]

\* A column whose text is a JSON list.
ListText == [kind |-> "text", value |-> [k |-> "list"]]

\* ----------------------------------------------------- generated contents
\* What the generation adapter may return, and what json.loads makes of it.
Contents == {"plain", "accept_true"}

JsonLoads(content) ==
    CASE content = "accept_true"  -> [ok |-> TRUE, type |-> "object", accept |-> "True"]
      [] content = "accept_false" -> [ok |-> TRUE, type |-> "object", accept |-> "False"]
      [] content = "accept_one"   -> [ok |-> TRUE, type |-> "object", accept |-> "1"]
      [] content = "accept_str"   -> [ok |-> TRUE, type |-> "object", accept |-> "'true'"]
      [] content = "empty_object" -> [ok |-> TRUE, type |-> "object", accept |-> "None"]
      [] content = "json_list"    -> [ok |-> TRUE, type |-> "list", accept |-> "None"]
      [] content = "json_null"    -> [ok |-> TRUE, type |-> "null", accept |-> "None"]
      [] OTHER                    -> [ok |-> FALSE, type |-> "none", accept |-> "None"]

\* -------------------------------------------------------- step definitions
\* The fields of a step as a request (or a legacy row) gives them, without
\* its order.  loop_config is the legacy column FlowStep.loop_config_dict
\* reads; _create_template_steps never writes it.
StepData(speaker, task, scope, param, logic, loop) ==
    [speaker_role_ref |-> speaker, target_role_ref |-> NoRef, task_type |-> task,
     context_scope |-> scope, context_param |-> param, logic_config |-> logic,
     loop_config |-> loop, next_step_id |-> None]

StepKinds ==
    { StepData("host", "ask_question", "none", NullText, NullText, NullText),
      StepData("guest", "answer_question", "last_message", NullText, NullText, NullText),
      StepData("guest", "answer_question", "last_message", NullText, ExitText,
               LoopText(Absent, NoRef)),
      StepData("guest", "summarize", "last_round", NullText, NullText, LoopText(3, "guest")),
      StepData("host", "review_answer", "all", NullText, NullText, LoopText(2, "ghost")),
      StepData("host", "conclude", "none", NullText, NullText, LoopText(3, NoRef)),
      StepData("ghost", "ask_question", "none", NullText, NullText, NullText),
      StepData("guest", "answer_question", "last_n_messages", ParamText(2), NullText,
               NullText) }

\* Step lists with order values 1..n in list order.
WithOrder(kinds) == [i \in 1..Len(kinds) |-> [order |-> i] @@ kinds[i]]

StepLists ==
    UNION { { WithOrder(ks) : ks \in [1..n -> StepKinds] } : n \in 0..MaxSteps }

\* Rows of flow_steps made from a step list, ids allocated upwards from base.
StepRows(tid, steps, base) ==
    { [id |-> base + i, flow_template_id |-> tid] @@ steps[i] : i \in 1..Len(steps) }

\* flow_template.steps.order_by(FlowStep.order).all()
RECURSIVE SortByOrder(_)
SortByOrder(rows) ==
    IF rows = {} THEN <<>>
    ELSE LET r == CHOOSE x \in rows : \A y \in rows :
                      x.order < y.order \/ (x.order = y.order /\ x.id <= y.id)
         IN <<r>> \o SortByOrder(rows \ {r})

\* ------------------------------------------------------------------- state
VARIABLES
    flow_templates,   \* rows of flow_templates: [id, is_active]
    flow_steps,       \* rows of flow_steps
    sessions,         \* rows of sessions, sessions[i].id = i
    session_roles,    \* rows of session_roles
    messages,         \* rows of messages in created_at order, id = position
    step_execution_logs, \* rows of step_execution_logs
    inflight,         \* per request worker: what an open execute_next has read
    cache,            \* CacheService: whether Redis answered, and the keys it holds
    clock,            \* time.time(), in seconds
    edits,            \* template edits made so far
    last              \* the last call: operation, arguments and outcome

vars == <<flow_templates, flow_steps, sessions, session_roles, messages,
          step_execution_logs, inflight, cache, clock, edits, last>>

SessionIds == 1..MaxSessions

\* Request workers that may hold an execute_next open, and the value of one
\* that holds none.
Workers == {"w1", "w2"}

NoCall == [open |-> FALSE]

\* -------------------------------------------------------------------- cache
\* CacheService before Redis has answered a ping: enabled is False.
NoRedis == [enabled |-> FALSE, entries |-> {}]

\* CacheService.default_ttl
default_ttl == 300

\* Python values handed to the cache: a scalar is its type and literal, a
\* list or tuple holds scalars, a dict holds scalar keys and values. A dict
\* of the rate limiter holds a list of request times as one of its values.
PyAtom(py, lit) == [py |-> py, lit |-> lit]

PyScalar(py, lit) == [py |-> py, lit |-> lit, items |-> <<>>, keys |-> <<>>]

PySeq(py, items) == [py |-> py, lit |-> "", items |-> items, keys |-> <<>>]

PyDict(keys, items) == [py |-> "dict", lit |-> "", items |-> items, keys |-> keys]

PyNone == PyScalar("NoneType", "null")

\* json.dumps of a scalar.
JsonAtom(x) ==
    [json |-> CASE x.py = "str" -> "string"
                [] x.py = "int" -> "number"
                [] x.py = "float" -> "real"
                [] x.py = "list" -> "array"
                [] x.py = "dict" -> "object"
                [] OTHER -> "null",
     lit |-> x.lit]

\* json.loads of a scalar.
PyOfJsonAtom(j) ==
    PyAtom(CASE j.json = "string" -> "str"
             [] j.json = "number" -> "int"
             [] j.json = "real" -> "float"
             [] j.json = "array" -> "list"
             [] j.json = "object" -> "dict"
             [] OTHER -> "NoneType",
           j.lit)

\* CacheService._serialize_value: json.dumps writes a tuple as an array and
\* every dict key as a string.
serialize_value(value) ==
    CASE value.py \in {"list", "tuple"} ->
            [json |-> "array", lit |-> "", keys |-> <<>>,
             items |-> [i \in DOMAIN value.items |-> JsonAtom(value.items[i])]]
      [] value.py = "dict" ->
            [json |-> "object", lit |-> "",
             keys |-> [i \in DOMAIN value.keys |->
                          [json |-> "string", lit |-> value.keys[i].lit]],
             items |-> [i \in DOMAIN value.items |-> JsonAtom(value.items[i])]]
      [] OTHER ->
            [json |-> JsonAtom(value).json, lit |-> value.lit,
             keys |-> <<>>, items |-> <<>>]

\* CacheService._deserialize_value with use_pickle False: json.loads.
deserialize_value(text) ==
    CASE text.json = "array" ->
            PySeq("list", [i \in DOMAIN text.items |-> PyOfJsonAtom(text.items[i])])
      [] text.json = "object" ->
            PyDict([i \in DOMAIN text.keys |-> PyOfJsonAtom(text.keys[i])],
                   [i \in DOMAIN text.items |-> PyOfJsonAtom(text.items[i])])
      [] OTHER ->
            PyScalar(PyOfJsonAtom([json |-> text.json, lit |-> text.lit]).py, text.lit)

\* The keys Redis still holds at a time.
LiveEntries(c, now, key) == { e \in c.entries : e.key = key /\ e.expires_at > now }

\* CacheService.get
cache_get(c, now, key, default) ==
    IF ~c.enabled THEN default
    ELSE IF LiveEntries(c, now, key) = {} THEN default
    ELSE deserialize_value((CHOOSE e \in LiveEntries(c, now, key) : TRUE).text)

\* CacheService.set; a ttl of 0 stands for no ttl given as well.
cache_set(c, now, key, value, ttl) ==
    IF ~c.enabled THEN [returned |-> FALSE, cache |-> c]
    ELSE [returned |-> TRUE,
          cache |-> [c EXCEPT !.entries =
                        { e \in @ : e.key # key } \cup
                        {[key |-> key, text |-> serialize_value(value),
                          expires_at |-> now + (IF ttl = 0 THEN default_ttl ELSE ttl)]}]]

\* CacheService.delete
cache_delete(c, now, key) ==
    IF ~c.enabled THEN [returned |-> TRUE, cache |-> c]
    ELSE [returned |-> LiveEntries(c, now, key) # {},
          cache |-> [c EXCEPT !.entries = { e \in @ : e.key # key }]]

\* CacheService.exists
cache_exists(c, now, key) ==
    IF ~c.enabled THEN FALSE ELSE LiveEntries(c, now, key) # {}

\* --------------------------------------------------------------- rate limit
\* RateLimitService._load_default_rules; penalty2 is twice the penalty_factor,
\* and weighted usage is counted in halves of a request throughout.
RateLimitRule(key, window_seconds, max_requests, block_duration, penalty2) ==
    [key |-> key, window_seconds |-> window_seconds, max_requests |-> max_requests,
     block_duration |-> block_duration, penalty2 |-> penalty2]

rules(limit_type) ==
    CASE limit_type = "api_call"     -> RateLimitRule("api_call", 60, 100, 300, 2)
      [] limit_type = "debug_access" -> RateLimitRule("debug_access", 300, 20, 600, 4)
      [] limit_type = "export"       -> RateLimitRule("export", 3600, 10, 1800, 3)
      [] limit_type = "realtime"     -> RateLimitRule("realtime", 60, 30, 120, 2)
      [] limit_type = "auth"         -> RateLimitRule("auth", 300, 5, 900, 6)

\* f"rate_limit:{rule.key}:{identifier}" and f"rate_limit:block:{rule.key}:{identifier}"
usage_key(rule, identifier) == "rate_limit:" \o rule.key \o ":" \o identifier

block_key(rule, identifier) == "rate_limit:block:" \o rule.key \o ":" \o identifier

\* {'requests': [...], 'total': ...}; the total is in halves.
UsageData(requests, total_type, total2) ==
    PyDict(<<PyAtom("str", "requests"), PyAtom("str", "total")>>,
           <<PyAtom("list", requests), PyAtom(total_type, total2)>>)

\* The block_info dict of _apply_block, with the keys that are read back;
\* usage is in halves.
BlockInfo(usage2, expires_type, expires_at, violation_count) ==
    PyDict(<<PyAtom("str", "usage"), PyAtom("str", "expires_at"),
             PyAtom("str", "violation_count")>>,
           <<PyAtom("float", usage2), PyAtom(expires_type, expires_at),
             PyAtom("int", violation_count)>>)

\* self.cache_service.get(cache_key) or {'requests': [], 'total': 0}
usage_or_default(c, now, key) ==
    IF cache_get(c, now, key, PyNone).py = "NoneType"
    THEN UsageData(<<>>, "int", 0)
    ELSE cache_get(c, now, key, PyNone)

\* [req_time for req_time in usage_data['requests'] if req_time > window_start]
valid_requests(requests, window_start) ==
    SelectSeq(requests, LAMBDA req_time : req_time > window_start)

\* block_info and current_time < block_info.get('expires_at', 0)
is_blocked(c, now, rule, identifier) ==
    IF cache_get(c, now, block_key(rule, identifier), PyNone).py = "NoneType" THEN FALSE
    ELSE now < cache_get(c, now, block_key(rule, identifier), PyNone).items[2].lit

\* int() of a non-negative number of halves.
IntOfHalves(x2) == x2 \div 2

RateLimitResult(allowed, remaining, reset_time, usage, blocked, block_expires, retry_after) ==
    [allowed |-> allowed, remaining |-> remaining, reset_time |-> reset_time,
     current_usage |-> usage, blocked |-> blocked,
     block_expires |-> block_expires, retry_after |-> retry_after]

\* RateLimitService._apply_block: the cache after it.
apply_block(c, now, rule, identifier, current_usage2) ==
    LET existing_block == cache_get(c, now, block_key(rule, identifier), PyNone)
        count == IF existing_block.py = "NoneType" THEN 1
                 ELSE existing_block.items[3].lit + 1
        block_info ==
            IF existing_block.py = "NoneType"
            THEN BlockInfo(current_usage2, "int", now + rule.block_duration, 1)
            ELSE BlockInfo(current_usage2, "float",
                           now + rule.block_duration + (count * rule.block_duration) \div 2,
                           count)
    IN  cache_set(c, now, block_key(rule, identifier), block_info,
                  rule.block_duration + 300).cache

\* RateLimitService.check_rate_limit for an enabled rule and a given
\* identifier: the result, whose current_usage on the two blocked paths is
\* in halves, and the cache after the call.
check_rate_limit(c, now, limit_type, identifier, weight) ==
    LET rule == rules(limit_type)
        window_start == now - rule.window_seconds
        block_info == cache_get(c, now, block_key(rule, identifier), PyNone)
        unblocked == IF block_info.py = "NoneType" THEN c
                     ELSE cache_delete(c, now, block_key(rule, identifier)).cache
        usage_data == usage_or_default(unblocked, now, usage_key(rule, identifier))
        effective_weight2 == weight * rule.penalty2
        current_total2 == usage_data.items[2].lit + effective_weight2
        remaining2 == Max({0, 2 * rule.max_requests - current_total2})
    IN  IF is_blocked(c, now, rule, identifier)
        THEN [result |-> RateLimitResult(FALSE, 0, block_info.items[2].lit,
                                         block_info.items[1].lit, TRUE,
                                         block_info.items[2].lit,
                                         block_info.items[2].lit - now),
              cache |-> c]
        ELSE IF current_total2 > 2 * rule.max_requests
        THEN [result |-> RateLimitResult(FALSE, 0, now + rule.window_seconds,
                                         current_total2, TRUE,
                                         now + rule.block_duration, rule.block_duration),
              cache |-> apply_block(unblocked, now, rule, identifier, current_total2)]
        ELSE [result |-> RateLimitResult(TRUE, IntOfHalves(remaining2),
                                         now + rule.window_seconds,
                                         IntOfHalves(current_total2), FALSE, 0, 0),
              cache |-> cache_set(unblocked, now, usage_key(rule, identifier),
                                  UsageData(Append(valid_requests(usage_data.items[1].lit,
                                                                  window_start), now),
                                            "float", current_total2),
                                  rule.window_seconds + 60).cache]

\* RateLimitService.get_usage_stats; total_weighted_usage2 and remaining2 are
\* the reported total_weighted_usage and remaining in halves.
get_usage_stats(c, now, limit_type, identifier) ==
    LET rule == rules(limit_type)
        usage_data == usage_or_default(c, now, usage_key(rule, identifier))
    IN  [current_usage |->
             Len(valid_requests(usage_data.items[1].lit, now - rule.window_seconds)),
         total_weighted_usage2 |-> usage_data.items[2].lit,
         remaining2 |-> Max({0, 2 * rule.max_requests - usage_data.items[2].lit}),
         reset_time |-> now + rule.window_seconds,
         is_blocked |-> is_blocked(c, now, rule, identifier)]

\* Session.query.get(session_id)
SessionExists(sid) == sid \in 1..Len(sessions)

\* FlowTemplate.query.get(template_id)
TemplateExists(tid) == \E t \in flow_templates : t.id = tid

TemplateSteps(steps, tid) == { r \in steps : r.flow_template_id = tid }

\* FlowStep.query.get(step_id): the set holding the row, or {}.
FlowStepGet(steps, stepId) == { r \in steps : r.id = stepId }

SessionMessageIds(msgs, sid) == { i \in 1..Len(msgs) : msgs[i].session_id = sid }

\* The outcome of a call, as recorded in last.
Outcome(op, sid, exc) ==
    [op |-> op, sid |-> sid, ok |-> (exc = ""), exc |-> exc, step |-> None,
     exit_met |-> FALSE, context |-> <<>>, is_finished |-> FALSE,
     next_step_id |-> None, error_code |-> "", reason |-> "", message_id |-> None,
     template_id |-> None]

\* ---------------------------------------------------------- SessionService
\* SessionService.get_session_role_by_ref: the set holding the first row, or {}.
get_session_role_by_ref(sroles, sid, ref) ==
    LET rows == { r \in sroles : r.session_id = sid /\ r.role_ref = ref }
    IN IF rows = {} THEN {} ELSE {First(rows)}

\* SessionService.get_role_mapping
get_role_mapping(sroles, sid) ==
    { <<r.role_ref, r.role_id>> : r \in { q \in sroles : q.session_id = sid } }

\* A lookup that tries the exact name before the session's mapping.
get_role_by_name_first(sroles, sid, ref) ==
    LET sr == { r \in sroles : r.session_id = sid /\ r.role_ref = ref }
        mapped == { r \in Roles : \E x \in sr : r.id = x.role_id }
        exact == { r \in Roles : r.name = ref }
    IN IF exact # {} THEN exact ELSE mapped

\* SessionService.get_role_for_execution: mapping, then exact name, then
\* substring match; the set holding the role, or {}.
get_role_for_execution(sroles, sid, ref) ==
    LET sr == get_session_role_by_ref(sroles, sid, ref)
        mapped == { r \in Roles : \E x \in sr : r.id = x.role_id }
        exact == { r \in Roles : r.name = ref }
        fuzzy == { r \in Roles : Contains(r.name, ref) }
    IN IF mapped # {} THEN mapped
       ELSE IF exact # {} THEN {First(exact)}
       ELSE IF fuzzy # {} THEN {First(fuzzy)}
       ELSE {}

\* SessionService._validate_role_mappings: "" when the mapping is accepted.
validate_role_mappings(steps, tid, mapping) ==
    LET template_roles ==
            { r.speaker_role_ref : r \in TemplateSteps(steps, tid) } \cup
            { r.target_role_ref : r \in { q \in TemplateSteps(steps, tid) :
                                            q.target_role_ref # NoRef } }
        keys == { m[1] : m \in mapping }
    IN IF template_roles \ keys # {} THEN "RoleMappingError"
       ELSE IF \E m \in mapping : ~ \E r \in Roles : r.id = m[2] THEN "RoleMappingError"
       ELSE ""

\* The role mappings a create request may carry for a template: every role
\* reference of the template mapped to an existing role.
DefaultRoleId(ref) == IF ref = "host" THEN 1 ELSE 2

FullMapping(steps, tid) ==
    { <<r.speaker_role_ref, DefaultRoleId(r.speaker_role_ref)>> :
        r \in TemplateSteps(steps, tid) }

\* SessionService._create_session_roles
create_session_roles(sroles, sid, mapping) ==
    LET RECURSIVE Add(_, _)
        Add(rows, todo) ==
            IF todo = {} THEN rows
            ELSE LET m == CHOOSE x \in todo : TRUE
                 IN Add(rows \cup { [id |-> NewId({ r.id : r \in rows }), session_id |-> sid,
                                     role_ref |-> m[1], role_id |-> m[2]] },
                        todo \ {m})
    IN Add(sroles, mapping)

\* ------------------------------------------------------- FlowStep properties
\* FlowStep.loop_config_dict: the parsed legacy loop_config column, {} when
\* it is NULL or not a dict.
EmptyLoop == [k |-> "loop", enabled |-> FALSE, max_loops |-> Absent,
              loop_start_role_ref |-> NoRef]

loop_config_dict(step) ==
    IF step.loop_config.kind = "text" /\ step.loop_config.value.k = "loop"
    THEN step.loop_config.value
    ELSE EmptyLoop

\* FlowStep.logic_config_dict: the parsed logic_config column when it holds
\* a dict.  (The legacy-column merge is not needed by what follows.)
logic_config_dict(step) ==
    IF step.logic_config.kind = "text" THEN step.logic_config.value ELSE [k |-> "none"]

\* ------------------------------------------------------- FlowEngineService
Range(seq) == { seq[i] : i \in 1..Len(seq) }

RECURSIVE Ascending(_)
Ascending(ids) ==
    IF ids = {} THEN <<>>
    ELSE LET m == CHOOSE x \in ids : \A y \in ids : x <= y
         IN <<m>> \o Ascending(ids \ {m})

\* json.loads of a context_scope that is none of the base scopes.
ScopeLoadsNotJson(scope) == [ok |-> FALSE, type |-> "none", names |-> <<>>]

ScopeLoads(scope) ==
    CASE scope = "[\"host\", \"ghost\"]" ->
            [ok |-> TRUE, type |-> "list", names |-> <<"host", "ghost">>]
      [] scope = "[\"guest\", \"host\"]" ->
            [ok |-> TRUE, type |-> "list", names |-> <<"guest", "host">>]
      [] scope = "[\"ghost\"]" ->
            [ok |-> TRUE, type |-> "list", names |-> <<"ghost">>]
      [] scope = "{\"host\": 1}" ->
            [ok |-> TRUE, type |-> "object", names |-> <<>>]
      [] OTHER -> [ok |-> FALSE, type |-> "none", names |-> <<>>]

\* FlowEngineService._select_context_messages: the ids of the selected
\* messages in the order returned, or raised.
select_context_messages(session, step, msgs, sroles) ==
    LET mine == SessionMessageIds(msgs, session.id)
        scope == step.context_scope
        keys == { m[1] : m \in get_role_mapping(sroles, session.id) }
        role_name_to_session_ids ==
            [ k \in keys |-> { r.id : r \in get_session_role_by_ref(sroles, session.id, k) } ]
        prev == { i \in mine : msgs[i].round_index = session.current_round - 1 }
    IN CASE scope = "none" -> [raised |-> FALSE, ids |-> <<>>]
         [] scope = "last_message" ->
                [raised |-> FALSE,
                 ids |-> IF mine = {} THEN <<>> ELSE <<Max(mine)>>]
         [] scope = "last_round" ->
                \* the second query uses and_, a name this module never imports
                IF prev # {} THEN [raised |-> TRUE, ids |-> <<>>]
                ELSE [raised |-> FALSE, ids |-> <<>>]
         [] scope = "last_n_messages" ->
                \* context_param is the Text column (str or None): no .get
                [raised |-> TRUE, ids |-> <<>>]
         [] scope = "all" -> [raised |-> FALSE, ids |-> Ascending(mine)]
         [] OTHER ->
                IF scope \in keys
                THEN [raised |-> FALSE,
                      ids |-> Ascending({ i \in mine : msgs[i].speaker_session_role_id
                                                        \in role_name_to_session_ids[scope] })]
                ELSE IF ScopeLoads(scope).type = "list"
                THEN [raised |-> FALSE,
                      ids |-> Ascending({ i \in mine :
                                \E name \in Range(ScopeLoads(scope).names) \cap keys :
                                   msgs[i].speaker_session_role_id
                                      \in role_name_to_session_ids[name] })]
                ELSE [raised |-> FALSE, ids |-> <<>>]

\* FlowEngineService._determine_message_section
determine_message_section(step) ==
    CASE step.task_type = "ask_question"    -> "ask"
      [] step.task_type = "answer_question" -> "answer"
      [] step.task_type = "review_answer"   -> "review"
      [] step.task_type = "summarize"       -> "summary"
      [] step.task_type = "conclude"        -> "conclusion"
      [] OTHER                              -> "discussion"

\* A round that starts after a summarize step only.
new_round_on_summarize_only(step) == step.task_type = "summarize"

\* FlowEngineService._should_start_new_round
should_start_new_round(step) == step.task_type \in {"summarize", "conclude"}

\* FlowEngineService._check_exit_condition: "true", "false" or "raise".
\* It reads the logic_config column itself, which holds a string or NULL.
check_exit_condition(session, step, msgs, sroles) ==
    LET logic_config ==
            IF step.logic_config.kind = "null"
            THEN [kind |-> "dict", value |-> [k |-> "none"]]
            ELSE step.logic_config
        condition_type ==
            IF logic_config.kind = "dict" /\ logic_config.value.k = "exit"
            THEN logic_config.value.type
            ELSE ""
        speaker == get_session_role_by_ref(sroles, session.id, step.speaker_role_ref)
        spoken == { i \in SessionMessageIds(msgs, session.id) :
                      \E r \in speaker : msgs[i].speaker_session_role_id = r.id }
        data == JsonLoads(msgs[Max(spoken)].content)
    IN IF condition_type # "llm_accept_flag" THEN "false"
       ELSE IF speaker = {} \/ spoken = {} THEN "false"
       ELSE IF ~data.ok THEN "false"
       ELSE IF data.type # "object" THEN "raise"
       ELSE IF data.accept = "True" THEN "true"
       ELSE "false"

\* A linear advance that returns the step at the position itself.
linear_advance_same_step(all_steps, idx) ==
    IF idx < Len(all_steps) THEN all_steps[idx].id ELSE None

\* _determine_next_step, linear advance: the step after position idx of the
\* ordered list, None after the last one.
linear_advance(all_steps, idx) ==
    IF idx < Len(all_steps) THEN all_steps[idx + 1].id ELSE None

\* A loop-back whose bound check is <= instead of <.
loop_back_inclusive(session, step, all_steps) ==
    LET loop_config == loop_config_dict(step)
        max_loops == IF loop_config.max_loops = Absent THEN 1 ELSE loop_config.max_loops
        start == { i \in 1..Len(all_steps) :
                     all_steps[i].speaker_role_ref = loop_config.loop_start_role_ref }
    IN IF loop_config.enabled /\ session.current_round <= max_loops
       THEN IF loop_config.loop_start_role_ref # NoRef /\ start # {}
            THEN all_steps[CHOOSE i \in start : \A j \in start : i <= j].id
            ELSE all_steps[1].id
       ELSE None

\* _determine_next_step, loop-back from the last step: the loop-start step
\* while the round is below max_loops, else None.
loop_back(session, step, all_steps) ==
    LET loop_config == loop_config_dict(step)
        max_loops == IF loop_config.max_loops = Absent THEN 1 ELSE loop_config.max_loops
        start == { i \in 1..Len(all_steps) :
                     all_steps[i].speaker_role_ref = loop_config.loop_start_role_ref }
    IN IF loop_config.enabled /\ session.current_round < max_loops
       THEN IF loop_config.loop_start_role_ref # NoRef /\ start # {}
            THEN all_steps[CHOOSE i \in start : \A j \in start : i <= j].id
            ELSE all_steps[1].id
       ELSE None

\* _determine_next_step, session.current_round < max_loops: comparing an int
\* with a str or None raises TypeError.
loop_bound_raises(step) ==
    /\ loop_config_dict(step).enabled
    /\ loop_config_dict(step).max_loops = NotANumber

\* FlowEngineService._determine_next_step: the next step id (None when
\* there is none), or raised.
determine_next_step(session, step, msgs, sroles, steps, templates) ==
    LET Decide(exit, all_steps) ==
            LET at == { i \in 1..Len(all_steps) : all_steps[i].id = step.id }
                next == IF exit \in {"true", "raise"} THEN None
                        ELSE IF ~ \E t \in templates : t.id = session.flow_template_id
                             THEN None
                        ELSE IF at = {} THEN None
                        ELSE IF Max(at) < Len(all_steps)
                             THEN linear_advance(all_steps, Max(at))
                        ELSE loop_back(session, step, all_steps)
                bound_raised ==
                    /\ exit = "false"
                    /\ \E t \in templates : t.id = session.flow_template_id
                    /\ at # {} /\ Max(at) = Len(all_steps)
                    /\ loop_bound_raises(step)
            IN [raised |-> (exit = "raise" \/ bound_raised), exit_met |-> (exit = "true"),
                next |-> next]
    IN Decide(check_exit_condition(session, step, msgs, sroles),
              SortByOrder(TemplateSteps(steps, session.flow_template_id)))

\* FlowEngineService._update_session_after_step_execution: the session row
\* after the step, or raised.
update_session_after_step_execution(session, step, msgs, sroles, steps, templates) ==
    LET counted == [session EXCEPT !.executed_steps_count = @ + 1]
        rounded == IF should_start_new_round(step)
                   THEN [counted EXCEPT !.current_round = @ + 1]
                   ELSE counted
        Apply(d) ==
            [raised |-> d.raised, exit_met |-> d.exit_met,
             session |-> IF d.next # None
                         THEN [rounded EXCEPT !.current_step_id = d.next]
                         ELSE [rounded EXCEPT !.status = "finished", !.ended_at = 1]]
    IN Apply(determine_next_step(rounded, step, msgs, sroles, steps, templates))

\* One run of the try block of execute_next_step on the tables given: the
\* pending rows (flushed, not committed) and the exception raised, if any.
\* fault is a database error injected at the flush of the message, at the
\* template query of _determine_next_step, or at the commit.
Faults == {"none", "flush", "query", "commit"}

TryStep(session, steps, templates, sroles, msgs, content, fault) ==
    LET Pending(exc, sr, ms, se, st, ctx, met) ==
            [exc |-> exc, session_roles |-> sr, messages |-> ms, session |-> se,
             step |-> st, context |-> ctx, exit_met |-> met]
        \* from the update of the session to the commit
        Update(step, sroles1, msgs1, ctx, upd) ==
            IF fault = "query" \/ upd.raised
            THEN Pending("FlowExecutionError", sroles1, msgs1, session, step.id, ctx, FALSE)
            ELSE Pending(IF fault = "commit" THEN "FlowExecutionError" ELSE "",
                         sroles1, msgs1, upd.session, step.id, ctx, upd.exit_met)
        \* from the Message row to the update of the session
        Record(step, sroles1, ctx, message) ==
            IF fault = "flush"
            THEN Pending("FlowExecutionError", sroles1, msgs, session, step.id, ctx, FALSE)
            ELSE Update(step, sroles1, Append(msgs, message), ctx,
                        update_session_after_step_execution(
                            session, step, Append(msgs, message), sroles1, steps, templates))
        \* from the context to the Message row
        Speak(step, sroles1, speaker, target, context) ==
            IF context.raised
            THEN Pending("FlowExecutionError", sroles1, msgs, session, step.id, <<>>, FALSE)
            ELSE Record(step, sroles1, context.ids,
                        [session_id |-> session.id,
                         speaker_session_role_id |-> speaker.id,
                         target_session_role_id |->
                             IF step.target_role_ref = NoRef \/ target = {} THEN None
                             ELSE (CHOOSE r \in target : TRUE).id,
                         reply_to_message_id |-> Max(SessionMessageIds(msgs, session.id)),
                         content |-> content,
                         round_index |-> session.current_round,
                         section |-> determine_message_section(step),
                         \* not a column: the step whose execution made the row
                         step_id |-> step.id])
        \* the speaker's SessionRole, a temporary one when none is mapped
        Enrol(step, role, mapped, temp_id) ==
            LET temp_session_role ==
                    [id |-> temp_id, session_id |-> session.id,
                     role_ref |-> step.speaker_role_ref,
                     role_id |-> (CHOOSE r \in role : TRUE).id]
                sroles1 == IF mapped = {} THEN sroles \cup {temp_session_role} ELSE sroles
                speaker == IF mapped = {} THEN temp_session_role
                           ELSE CHOOSE r \in mapped : TRUE
            IN Speak(step, sroles1, speaker,
                     get_session_role_by_ref(sroles1, session.id, step.target_role_ref),
                     select_context_messages(session, step, msgs, sroles1))
        Resolve(step, role) ==
            IF role = {}
            THEN Pending("FlowExecutionError", sroles, msgs, session, step.id, <<>>, FALSE)
            ELSE Enrol(step, role,
                       get_session_role_by_ref(sroles, session.id, step.speaker_role_ref),
                       NewId({ r.id : r \in sroles }))
        Load(found) ==
            IF found = {}
            THEN Pending("FlowExecutionError", sroles, msgs, session, None, <<>>, FALSE)
            ELSE Resolve(CHOOSE r \in found : TRUE,
                         get_role_for_execution(sroles, session.id,
                                                (CHOOSE r \in found : TRUE).speaker_role_ref))
    IN Load(FlowStepGet(steps, session.current_step_id))

\* A rollback that misses the rows already flushed, as if the temporary
\* SessionRole had been committed when it was made.
RollbackKeepsFlushed(before, pending) ==
    [before EXCEPT !.session_roles = pending.session_roles]

\* db.session.rollback(): the tables as they were before the attempt.
Rollback(before, pending) == before

\* A commit that stores the new rows and leaves the session row as it was.
CommitRowsOnly(before, pending) ==
    [session_roles |-> pending.session_roles, messages |-> pending.messages,
     session |-> before.session]

\* db.session.commit(): the pending rows become the tables.
Commit(before, pending) ==
    [session_roles |-> pending.session_roles, messages |-> pending.messages,
     session |-> pending.session]

\* FlowEngineService.execute_next_step: the tables after the call and its
\* outcome.
execute_next_step(sid, content, fault) ==
    LET Result(out, after) ==
            [out |-> out, session_roles |-> after.session_roles,
             messages |-> after.messages,
             sessions |-> IF SessionExists(sid) THEN [sessions EXCEPT ![sid] = after.session]
                          ELSE sessions]
        Close(pending, after) ==
            Result([Outcome("execute_next", sid, pending.exc) EXCEPT
                      !.step = pending.step,
                      !.exit_met = (pending.exc = "" /\ pending.exit_met),
                      !.context = IF pending.exc = "" THEN pending.context ELSE <<>>,
                      !.is_finished = (pending.exc = "" /\ after.session.status = "finished"),
                      !.next_step_id = IF pending.exc = "" THEN after.session.current_step_id
                                       ELSE None],
                   after)
        Try(before, pending) ==
            Close(pending, IF pending.exc = "" THEN Commit(before, pending)
                           ELSE Rollback(before, pending))
        untouched == [session_roles |-> session_roles, messages |-> messages]
    IN IF ~SessionExists(sid)
       THEN Result(Outcome("execute_next", sid, "SessionError"), untouched)
       ELSE IF sessions[sid].status # "running"
       THEN Result(Outcome("execute_next", sid, "FlowExecutionError"),
                   [session |-> sessions[sid]] @@ untouched)
       ELSE Try([session |-> sessions[sid]] @@ untouched,
                TryStep(sessions[sid], flow_steps, flow_templates, session_roles,
                        messages, content, fault))

\* ----------------------------------------------------- generation adapter
\* What the POST to the LLM chat endpoint may come to: an answer, a
\* connection error, a status other than 200, or a payload without success.
Replies ==
    { [kind |-> "ok", content |-> c] : c \in Contents } \cup
    { [kind |-> k, content |-> ""] : k \in {"connection_error", "timeout", "http_error", "error_payload"} }

\* FlowEngineService._build_simple_prompt: the prompt text, which is not JSON.
build_simple_prompt == "prompt"

\* A generation that raises where the endpoint has not answered.
generate_or_raise(reply) ==
    [raised |-> reply.kind # "ok", content |-> reply.content]

\* FlowEngineService._generate_llm_response_sync: the answer, or the prompt
\* text from either except clause; it raises nothing.
generate_llm_response_sync(reply) ==
    [raised |-> FALSE,
     content |-> IF reply.kind = "ok" THEN reply.content ELSE build_simple_prompt]

\* ------------------------------------------------------ StepExecutionLog
\* StepProgressService.create_step_log: the table with the new row.
create_step_log(logs, session_id, step_id, execution_order, now) ==
    logs \cup { [id |-> NewId({ l.id : l \in logs }), session_id |-> session_id,
                 step_id |-> step_id, execution_order |-> execution_order,
                 status |-> "pending", created_at |-> now] }

\* timedelta(days=1), in seconds.
SecondsPerDay == 86400

\* StepProgressService.clean_old_logs: the number of rows deleted and the
\* table after it.
clean_old_logs(logs, now, days_to_keep) ==
    LET cutoff_date == now - days_to_keep * SecondsPerDay
        old == { l \in logs : l.created_at < cutoff_date
                                /\ l.status \in {"completed", "failed"} }
    IN [returned |-> Cardinality(old), logs |-> logs \ old]

\* start_step_execution, complete_step_execution and fail_step_execution:
\* the row is fetched by id and its status assigned; False when there is no
\* such row.
set_log_status(logs, log_id, status) ==
    IF \E l \in logs : l.id = log_id
    THEN [returned |-> TRUE,
          logs |-> { IF l.id = log_id THEN [l EXCEPT !.status = status] ELSE l : l \in logs }]
    ELSE [returned |-> FALSE, logs |-> logs]

\* cls.query.filter_by(session_id=...).order_by(cls.execution_order).all()
RECURSIVE SortByExecutionOrder(_)
SortByExecutionOrder(rows) ==
    IF rows = {} THEN <<>>
    ELSE LET r == CHOOSE x \in rows : \A y \in rows : x.execution_order <= y.execution_order
         IN <<r>> \o SortByExecutionOrder(rows \ {r})

\* StepExecutionLog.get_session_progress_summary; current_step is the id of
\* the entry reported, None when there is none.
get_session_progress_summary(all_logs, session_id) ==
    LET logs == SortByExecutionOrder({ l \in all_logs : l.session_id = session_id })
        Count(status) == Cardinality({ i \in 1..Len(logs) : logs[i].status = status })
        shown == { i \in 1..Len(logs) : logs[i].status \in {"running", "pending", "completed"} }
    IN [total_steps |-> Len(logs),
        completed_steps |-> Count("completed"),
        failed_steps |-> Count("failed"),
        running_steps |-> Count("running"),
        pending_steps |-> Count("pending"),
        current_step |-> IF shown = {} THEN None ELSE logs[Max(shown)].id]

\* str() of a bool inside an f-string.
BoolText(b) == IF b THEN "True" ELSE "False"

\* StepProgressCache: the key of a session's progress for a detail level.
progress_cache_key(session_id, details) ==
    "step_progress:session_" \o ToString(session_id) \o "_details_" \o BoolText(details)

\* dict.get(key, default) on a dict of the cache.
DictGet(d, key, default) ==
    IF \E i \in DOMAIN d.keys : d.keys[i].lit = key
    THEN d.items[CHOOSE i \in DOMAIN d.keys : d.keys[i].lit = key]
    ELSE default

\* StepProgressCache.get_session_progress
get_session_progress(c, now, session_id, include_details) ==
    cache_get(c, now, progress_cache_key(session_id, include_details), PyNone)

\* StepProgressCache.set_session_progress: the detail level of the key is
\* read from the data, progress_data.get('include_details', False).
set_session_progress(c, now, session_id, progress_data, ttl) ==
    cache_set(c, now,
              progress_cache_key(session_id,
                                 DictGet(progress_data, "include_details",
                                         PyAtom("bool", FALSE)).lit),
              progress_data, ttl)

\* StepProgressCache.invalidate_session_progress: CacheService.clear of the
\* pattern step_progress:session_<id>_*, which the keys of both detail
\* levels match.
invalidate_session_progress(c, session_id) ==
    IF ~c.enabled THEN c
    ELSE [c EXCEPT !.entries =
            { e \in @ : e.key \notin { progress_cache_key(session_id, d) : d \in BOOLEAN } }]

\* The invalidation at the end of start_, complete_ and
\* fail_step_execution, reached when the log exists.
invalidate_for_log(c, logs, log_id) ==
    IF \E l \in logs : l.id = log_id
    THEN invalidate_session_progress(c, (CHOOSE l \in logs : l.id = log_id).session_id)
    ELSE c

\* StepExecutionLog.to_dict: has_details stands for the keys added with
\* include_details (result_data, the snapshots, step_info, child_log_count).
to_dict(log, include_details) == [has_details |-> include_details] @@ log

\* Query.paginate(page, per_page, error_out=False): the items of the page.
paginate(rows, page, per_page) ==
    SubSeq(rows, (page - 1) * per_page + 1,
           IF page * per_page < Len(rows) THEN page * per_page ELSE Len(rows))

\* get_session_step_progress without the cache: the result dict built from
\* the log table (pages, has_prev and has_next follow from page, per_page
\* and total and are left out).
compute_step_progress(all_logs, session_id, include_details, page, per_page) ==
    LET rows == SortByExecutionOrder({ l \in all_logs : l.session_id = session_id })
        items == paginate(rows, page, per_page)
        summary == get_session_progress_summary(all_logs, session_id)
        current == { l \in all_logs : l.id = summary.current_step }
    IN PyDict(<<PyAtom("str", "logs"), PyAtom("str", "summary"),
                PyAtom("str", "current_step"), PyAtom("str", "pagination")>>,
              <<PyAtom("list", [i \in DOMAIN items |-> to_dict(items[i], include_details)]),
                PyAtom("dict", <<summary>>),
                IF summary.current_step # None /\ include_details /\ current # {}
                THEN PyAtom("dict", <<to_dict(CHOOSE l \in current : TRUE, TRUE)>>)
                ELSE PyAtom("NoneType", <<>>),
                PyAtom("dict", <<[page |-> page, per_page |-> per_page,
                                  total |-> Len(rows)]>>)>>)

\* StepProgressService.get_session_step_progress with use_cache: the result
\* returned and the cache after the call.
get_session_step_progress(all_logs, c, now, session_id, include_details, page, per_page) ==
    LET cached_data == get_session_progress(c, now, session_id, include_details)
        Miss(result) ==
            [result |-> result, hit |-> FALSE,
             cache |-> set_session_progress(c, now, session_id, result, 600).cache]
    IN IF cached_data.py = "dict"
       THEN IF DictGet(cached_data, "pagination", PyNone).lit[1].page = page
            THEN [result |-> cached_data, hit |-> TRUE, cache |-> c]
            ELSE Miss(compute_step_progress(all_logs, session_id, include_details,
                                            page, per_page))
       ELSE Miss(compute_step_progress(all_logs, session_id, include_details,
                                       page, per_page))

\* ------------------------------------------------ overlapping execute_next
\* Two requests run execute_next_step each in its own database session; the
\* LLM call separates what a request reads from what it writes.

\* A flush in which an increment is applied to the stored row instead of
\* the loaded one.
write_back_stored_count(current, loaded, updated) ==
    [ f \in DOMAIN current |->
        IF f = "executed_steps_count" THEN current[f] + 1
        ELSE IF updated[f] # loaded[f] THEN updated[f] ELSE current[f] ]

\* The UPDATE of the flush: the attributes whose value differs from the one
\* loaded are written, the others stay as stored.
write_back(current, loaded, updated) ==
    [ f \in DOMAIN current |-> IF updated[f] # loaded[f] THEN updated[f] ELSE current[f] ]

\* execute_next_step up to the LLM call: the exception raised, or the call
\* with the session row, the step, the speaker and the context it has read.
begin_execute(sid) ==
    LET Failed(exc) == [exc |-> exc, call |-> NoCall]
        Opened(session, step, speaker, context) ==
            IF context.raised THEN Failed("FlowExecutionError")
            ELSE [exc |-> "",
                  call |-> [open |-> TRUE, sid |-> sid, session |-> session, step |-> step,
                            speaker |-> speaker.id, context |-> context.ids,
                            \* not read by the code: the rows of messages at that time
                            seen |-> Len(messages)]]
        Resolve(session, step) ==
            IF get_role_for_execution(session_roles, sid, step.speaker_role_ref) = {}
            THEN Failed("FlowExecutionError")
            ELSE Opened(session, step,
                        CHOOSE r \in get_session_role_by_ref(session_roles, sid,
                                                             step.speaker_role_ref) : TRUE,
                        select_context_messages(session, step, messages, session_roles))
        Load(session, found) ==
            IF found = {} THEN Failed("FlowExecutionError")
            ELSE Resolve(session, CHOOSE r \in found : TRUE)
    IN IF ~SessionExists(sid) THEN Failed("SessionError")
       ELSE IF sessions[sid].status # "running" THEN Failed("FlowExecutionError")
       ELSE Load(sessions[sid], FlowStepGet(flow_steps, sessions[sid].current_step_id))

\* execute_next_step from the LLM's answer on: the Message row, the update of
\* the session object loaded before the LLM call, and the commit.
complete_execute(call, content) ==
    LET target == get_session_role_by_ref(session_roles, call.sid, call.step.target_role_ref)
        message ==
            [session_id |-> call.sid,
             speaker_session_role_id |-> call.speaker,
             target_session_role_id |->
                 IF call.step.target_role_ref = NoRef \/ target = {} THEN None
                 ELSE (CHOOSE r \in target : TRUE).id,
             reply_to_message_id |-> Max(SessionMessageIds(messages, call.sid)),
             content |-> content,
             round_index |-> call.session.current_round,
             section |-> determine_message_section(call.step),
             step_id |-> call.step.id]
        Done(upd) ==
            IF upd.raised
            THEN [exc |-> "FlowExecutionError", messages |-> messages, sessions |-> sessions,
                  exit_met |-> FALSE]
            ELSE [exc |-> "", messages |-> Append(messages, message),
                  sessions |-> [sessions EXCEPT
                                  ![call.sid] = write_back(@, call.session, upd.session)],
                  exit_met |-> upd.exit_met]
    IN Done(update_session_after_step_execution(
                call.session, call.step, Append(messages, message), session_roles,
                flow_steps, flow_templates))

\* SessionService.is_session_executable
is_session_executable(sid) ==
    /\ SessionExists(sid)
    /\ sessions[sid].status = "running"
    /\ sessions[sid].current_step_id # None

\* The error_code of the except clauses of SessionExecution.post and
\* SessionControl.post, by exception class.
ExecutionErrorCode(exc) ==
    CASE exc = "" -> ""
      [] exc = "SessionNotFoundError" -> "NOT_FOUND"
      [] exc = "FlowExecutionError" -> "FLOW_EXECUTION_ERROR"
      [] OTHER -> "INTERNAL_ERROR"

ControlErrorCode(exc) ==
    CASE exc = "" -> ""
      [] exc = "SessionNotFoundError" -> "NOT_FOUND"
      [] exc = "InvalidSessionStateError" -> "INVALID_STATE"
      [] OTHER -> "INTERNAL_ERROR"

\* A fork that hands the source's SessionRole rows over to the new session
\* instead of copying them.
move_session_roles(sroles, sid, new_id) ==
    { IF r.session_id = sid THEN [r EXCEPT !.session_id = new_id] ELSE r : r \in sroles }

\* SessionService.create_branch_session: the SessionRole rows of the source
\* copied for the new session, ids allocated in the order the rows are read.
copy_session_roles(sroles, sid, new_id) ==
    LET RECURSIVE Add(_, _)
        Add(rows, todo) ==
            IF todo = {} THEN rows
            ELSE Add(rows \cup { [id |-> NewId({ r.id : r \in rows }), session_id |-> new_id,
                                  role_ref |-> First(todo).role_ref,
                                  role_id |-> First(todo).role_id] },
                     todo \ {First(todo)})
    IN Add(sroles, { r \in sroles : r.session_id = sid })

\* SessionService.create_branch_session: the copy of one Message for the new
\* session; the speaker is the new session's role with the same reference,
\* target and reply-to are taken over as they are.
copy_message(original_message, sroles1, new_id) ==
    LET original_session_role ==
            CHOOSE r \in sroles1 : r.id = original_message.speaker_session_role_id
        new_session_role ==
            First({ r \in sroles1 : /\ r.session_id = new_id
                                    /\ r.role_ref = original_session_role.role_ref })
    IN [original_message EXCEPT !.session_id = new_id,
                                !.speaker_session_role_id = new_session_role.id]

\* A cut that stops before the branch point message.
messages_before_cut(msgs, sid, branch_point_message_id) ==
    Ascending({ i \in SessionMessageIds(msgs, sid) : i < branch_point_message_id })

\* SessionService.create_branch_session: the ids of the source's Messages
\* with id <= the branch point, in created_at order.
messages_to_copy(msgs, sid, branch_point_message_id) ==
    Ascending({ i \in SessionMessageIds(msgs, sid) : i <= branch_point_message_id })

\* SessionService.create_branch_session: the exception raised ("" when none)
\* and the tables after the call.
create_branch_session(sid, branch_point_message_id) ==
    LET new_id == Len(sessions) + 1
        new_session ==
            [id |-> new_id, flow_template_id |-> sessions[sid].flow_template_id,
             flow_snapshot |-> sessions[sid].flow_snapshot,
             status |-> "not_started", current_step_id |-> None,
             current_round |-> 0, executed_steps_count |-> 0,
             error_reason |-> "", ended_at |-> None]
        Copy(ids, sroles1) ==
            [k \in 1..Len(ids) |-> copy_message(messages[ids[k]], sroles1, new_id)]
        Copies(sroles1) == Copy(messages_to_copy(messages, sid, branch_point_message_id), sroles1)
        Raised(exc) == [exc |-> exc, sessions |-> sessions, session_roles |-> session_roles,
                        messages |-> messages]
        Made(sroles1) == [exc |-> "", sessions |-> Append(sessions, new_session),
                          session_roles |-> sroles1,
                          messages |-> messages \o Copies(sroles1)]
    IN IF ~SessionExists(sid) THEN Raised("SessionNotFoundError")
       \* raised inside the try block: rolled back and re-raised as SessionError
       ELSE IF branch_point_message_id \notin SessionMessageIds(messages, sid)
            THEN Raised("SessionError")
       ELSE Made(copy_session_roles(session_roles, sid, new_id))

\* The error_code of the except clauses of SessionBranch.post.
BranchErrorCode(exc) ==
    CASE exc = "" -> ""
      [] exc = "SessionNotFoundError" -> "NOT_FOUND"
      [] OTHER -> "INTERNAL_ERROR"

\* ------------------------------------------------------ FlowTemplateService
\* The task kinds _validate_steps_data accepts.
valid_task_types ==
    {"ask_question", "answer_question", "review_answer", "question", "summarize",
     "evaluate", "suggest", "challenge", "support", "conclude", "comment"}

\* FlowTemplateService._validate_steps_data: "" when the list is accepted.
\* (A context_param arrives as a dict or not at all; the stored column is
\* text, which is what the step records here hold.)
validate_steps_data(steps_data) ==
    LET orders == { steps_data[i].order : i \in 1..Len(steps_data) }
    IN IF Len(steps_data) = 0 THEN "StepValidationError"
       ELSE IF Cardinality(orders) # Len(steps_data) THEN "StepValidationError"
       ELSE IF orders # 1..Len(steps_data) THEN "StepValidationError"
       ELSE IF \E i \in 1..Len(steps_data) : steps_data[i].task_type \notin valid_task_types
            THEN "StepValidationError"
       ELSE IF \E i \in 1..Len(steps_data) :
                  /\ steps_data[i].context_scope = "last_n_messages"
                  /\ steps_data[i].context_param.kind # "dict"
            THEN "StepValidationError"
       ELSE ""

\* FlowTemplateService._create_template_steps: the rows added for a step
\* list; the legacy loop_config column is left NULL.
create_template_steps(steps, tid, steps_data) ==
    steps \cup { [r EXCEPT !.loop_config = NullText] :
                   r \in StepRows(tid, steps_data, Max({ q.id : q \in steps })) }

\* A rollback that keeps what the call had changed before it failed.
RollbackTemplateKeepsEdit(before, pending) == pending

\* db.session.rollback() in create_template / update_template.
RollbackTemplate(before, pending) == before

\* FlowTemplateService.update_template: the exception raised ("" when none)
\* and the template tables after the call.  update_data holds is_active
\* ("absent" when the key is missing) and, when has_steps, a step list.
update_template(tid, update_data) ==
    LET before == [flow_templates |-> flow_templates, flow_steps |-> flow_steps]
        Done(exc, pending) ==
            [exc |-> exc,
             tables |-> IF exc = "" THEN pending ELSE RollbackTemplate(before, pending)]
        Steps(templates1, kept) ==
            IF ~update_data.has_steps
            THEN Done("", [flow_templates |-> templates1, flow_steps |-> flow_steps])
            ELSE IF validate_steps_data(update_data.steps) # ""
            THEN Done(validate_steps_data(update_data.steps),
                      [flow_templates |-> templates1, flow_steps |-> kept])
            ELSE Done("", [flow_templates |-> templates1,
                           flow_steps |-> create_template_steps(kept, tid, update_data.steps)])
    IN IF ~TemplateExists(tid) THEN [exc |-> "TemplateNotFoundError", tables |-> before]
       ELSE Steps({ IF t.id = tid /\ update_data.is_active # "absent"
                    THEN [t EXCEPT !.is_active = (update_data.is_active = "true")]
                    ELSE t : t \in flow_templates },
                  flow_steps \ TemplateSteps(flow_steps, tid))

\* FlowTemplateService.create_template: the exception raised ("" when none)
\* and the template tables after the call; the steps are validated and
\* created only "if steps_data".
create_template(steps_data) ==
    LET before == [flow_templates |-> flow_templates, flow_steps |-> flow_steps]
        Made(tid) ==
            [flow_templates |-> flow_templates \cup { [id |-> tid, is_active |-> TRUE] },
             flow_steps |-> IF Len(steps_data) = 0 \/ validate_steps_data(steps_data) # ""
                            THEN flow_steps
                            ELSE create_template_steps(flow_steps, tid, steps_data)]
        Done(exc, pending) ==
            [exc |-> exc,
             tables |-> IF exc = "" THEN pending ELSE RollbackTemplate(before, pending)]
    IN Done(IF Len(steps_data) = 0 THEN "" ELSE validate_steps_data(steps_data),
            Made(NewId({ t.id : t \in flow_templates })))

\* The step lists an update request may carry.
UpdateKinds ==
    { StepData("guest", "answer_question", "last_message", NullText, ExitText, NullText) }

UpdateLists ==
    UNION { { WithOrder(ks) : ks \in [1..n -> UpdateKinds] } : n \in 0..MaxSteps }

\* Update requests that replace the step list and nothing else.
UpdateRequests == { [is_active |-> "absent", has_steps |-> TRUE, steps |-> sd] : sd \in UpdateLists }

\* Step lists as a create or update request may carry them: any order
\* values, task kinds that validation accepts or not, a last-N scope.
RequestKinds ==
    { StepData("host", "ask_question", "none", NullText, NullText, NullText),
      StepData("host", "chat", "none", NullText, NullText, NullText),
      StepData("host", "ask_question", "last_n_messages", NullText, NullText, NullText) }

RequestSteps == { [order |-> o] @@ k : o \in 1..MaxOrder, k \in RequestKinds }

RequestLists == UNION { [1..n -> RequestSteps] : n \in 0..MaxSteps }

TemplateRequests ==
    { [is_active |-> a, has_steps |-> TRUE, steps |-> sd] :
        a \in {"absent", "false"}, sd \in RequestLists }
    \cup { [is_active |-> "false", has_steps |-> FALSE, steps |-> <<>>] }

\* ------------------------------------------------- session state machine
\* A resume check that only refuses finished sessions.
ResumeUnlessFinished(status) == status # "finished"

\* A start check that only refuses running sessions.
StartUnlessRunning(status) == status # "running"

\* The status checks of start_session, pause_session and resume_session.
StartAllowed(status) == status = "not_started"

PauseAllowed(status) == status = "running"

ResumeAllowed(status) == status = "paused"

\* The step start would pick with the ordering reversed.
highest_order_step(rows) == SortByOrder(rows)[Cardinality(rows)]

\* start_session: flow_template.steps.order_by(FlowStep.order).first()
first_step(rows) == SortByOrder(rows)[1]

\* A finish that forgets the end time.
finish_without_end_time(session, reason) ==
    [session EXCEPT !.status = "finished",
                    !.error_reason = IF reason # "" THEN reason ELSE @]

\* finish_session: the session row after it.
finish_fields(session, reason) ==
    [session EXCEPT !.status = "finished",
                    !.ended_at = 1,
                    !.error_reason = IF reason # "" THEN reason ELSE @]

\* ------------------------------------------------------------------ actions
TableFrame ==
    UNCHANGED <<flow_templates, flow_steps, edits, step_execution_logs, inflight, cache, clock>>

\* The store holds one template, with any of the step lists.
Init ==
    /\ flow_templates = { [id |-> 1, is_active |-> TRUE] }
    /\ \E steps \in StepLists : flow_steps = StepRows(1, steps, 0)
    /\ sessions = <<>>
    /\ session_roles = {}
    /\ messages = <<>>
    /\ step_execution_logs = {}
    /\ inflight = [w \in Workers |-> NoCall]
    /\ cache = NoRedis
    /\ clock = 0
    /\ edits = 0
    /\ last = Outcome("init", None, "")

\* SessionService.create_session, with or without a role mapping.
CreateSession(tid, with_mapping) ==
    /\ Len(sessions) < MaxSessions
    /\ LET sid == Len(sessions) + 1
           mapping == FullMapping(flow_steps, tid)
           exc == IF ~TemplateExists(tid) THEN "SessionNotFoundError"
                  ELSE IF with_mapping THEN validate_role_mappings(flow_steps, tid, mapping)
                  ELSE ""
           session == [id |-> sid, flow_template_id |-> tid,
                       flow_snapshot |-> SortByOrder(TemplateSteps(flow_steps, tid)),
                       status |-> "not_started", current_step_id |-> None,
                       current_round |-> 0, executed_steps_count |-> 0,
                       error_reason |-> "", ended_at |-> None]
       IN /\ last' = Outcome("create", IF exc = "" THEN sid ELSE None, exc)
          /\ IF exc = ""
             THEN /\ sessions' = Append(sessions, session)
                  /\ session_roles' = IF with_mapping
                                      THEN create_session_roles(session_roles, sid, mapping)
                                      ELSE session_roles
             ELSE UNCHANGED <<sessions, session_roles>>
    /\ UNCHANGED messages
    /\ TableFrame

\* SessionService.create_session with the role_mappings of the request.
CreateSessionMapped(tid, mapping) ==
    /\ Len(sessions) < MaxSessions
    /\ LET sid == Len(sessions) + 1
           exc == IF ~TemplateExists(tid) THEN "SessionNotFoundError"
                  ELSE validate_role_mappings(flow_steps, tid, mapping)
           session == [id |-> sid, flow_template_id |-> tid,
                       flow_snapshot |-> SortByOrder(TemplateSteps(flow_steps, tid)),
                       status |-> "not_started", current_step_id |-> None,
                       current_round |-> 0, executed_steps_count |-> 0,
                       error_reason |-> "", ended_at |-> None]
       IN /\ last' = Outcome("create", IF exc = "" THEN sid ELSE None, exc)
          /\ IF exc = ""
             THEN /\ sessions' = Append(sessions, session)
                  /\ session_roles' = create_session_roles(session_roles, sid, mapping)
             ELSE UNCHANGED <<sessions, session_roles>>
    /\ UNCHANGED messages
    /\ TableFrame

\* SessionService.start_session
StartSession(sid) ==
    LET steps == TemplateSteps(flow_steps, sessions[sid].flow_template_id)
        exc == IF ~SessionExists(sid) THEN "SessionNotFoundError"
               ELSE IF ~StartAllowed(sessions[sid].status) THEN "InvalidSessionStateError"
               ELSE IF ~TemplateExists(sessions[sid].flow_template_id)
                    THEN "SessionNotFoundError"
               ELSE IF steps = {} THEN "FlowExecutionError"
               ELSE ""
    IN /\ last' = [Outcome("start", sid, exc) EXCEPT !.error_code = ControlErrorCode(exc)]
       /\ sessions' = IF exc = ""
                      THEN [sessions EXCEPT ![sid].status = "running",
                                            ![sid].current_step_id = first_step(steps).id,
                                            ![sid].current_round = 1]
                      ELSE sessions
       /\ UNCHANGED <<session_roles, messages>>
       /\ TableFrame

\* SessionService.pause_session
PauseSession(sid) ==
    LET exc == IF ~SessionExists(sid) THEN "SessionNotFoundError"
               ELSE IF ~PauseAllowed(sessions[sid].status) THEN "InvalidSessionStateError"
               ELSE ""
    IN /\ last' = [Outcome("pause", sid, exc) EXCEPT !.error_code = ControlErrorCode(exc)]
       /\ sessions' = IF exc = "" THEN [sessions EXCEPT ![sid].status = "paused"]
                      ELSE sessions
       /\ UNCHANGED <<session_roles, messages>>
       /\ TableFrame

\* SessionService.resume_session
ResumeSession(sid) ==
    LET exc == IF ~SessionExists(sid) THEN "SessionNotFoundError"
               ELSE IF ~ResumeAllowed(sessions[sid].status) THEN "InvalidSessionStateError"
               ELSE ""
    IN /\ last' = [Outcome("resume", sid, exc) EXCEPT !.error_code = ControlErrorCode(exc)]
       /\ sessions' = IF exc = "" THEN [sessions EXCEPT ![sid].status = "running"]
                      ELSE sessions
       /\ UNCHANGED <<session_roles, messages>>
       /\ TableFrame

\* SessionService.finish_session
Reasons == {"", "user_stop"}

\* UpdateSessionSchema: the values its status field accepts.
UpdateSessionStatuses == {"not_started", "running", "paused", "finished"}

\* SessionDetail.put with a body that holds status ("absent" when the body
\* has only a topic): the schema check, the lookup, then setattr and commit.
\* No other column of the row is written (the topic and updated_at are not
\* part of the rows here).
SessionDetailPut(sid, status) ==
    LET code == IF status # "absent" /\ status \notin UpdateSessionStatuses
                THEN "VALIDATION_ERROR"
                ELSE IF ~SessionExists(sid) THEN "NOT_FOUND"
                ELSE ""
    IN /\ last' = [Outcome("update_session", sid, code) EXCEPT !.error_code = code]
       /\ sessions' = IF code = "" /\ status # "absent"
                      THEN [sessions EXCEPT ![sid].status = status]
                      ELSE sessions
       /\ UNCHANGED <<session_roles, messages>>
       /\ TableFrame

FinishSession(sid, reason) ==
    LET exc == IF ~SessionExists(sid) THEN "SessionNotFoundError" ELSE ""
    IN /\ last' = [Outcome("finish", sid, exc) EXCEPT !.error_code = ControlErrorCode(exc),
                                                       !.reason = reason]
       /\ sessions' = IF exc = ""
                      THEN [sessions EXCEPT ![sid] = finish_fields(@, reason)]
                      ELSE sessions
       /\ UNCHANGED <<session_roles, messages>>
       /\ TableFrame

\* FlowEngineService.execute_next_step
ExecuteNextStep(sid, content, fault) ==
    /\ Cardinality(SessionMessageIds(messages, sid)) < MaxMsgs
    /\ \E r \in {execute_next_step(sid, content, fault)} :
          /\ last' = r.out
          /\ sessions' = r.sessions
          /\ session_roles' = r.session_roles
          /\ messages' = r.messages
    /\ TableFrame

\* execute_next_step of one request, up to the LLM call. The requests taken
\* are those whose speaker has a SessionRole: the other ones flush a row
\* first and hold the write lock of the database across the LLM call.
BeginExecute(w, sid) ==
    /\ ~inflight[w].open
    /\ Cardinality(SessionMessageIds(messages, sid))
         + Cardinality({ v \in Workers : inflight[v].open /\ inflight[v].sid = sid }) < MaxMsgs
    /\ IF SessionExists(sid)
       THEN \A st \in FlowStepGet(flow_steps, sessions[sid].current_step_id) :
                get_session_role_by_ref(session_roles, sid, st.speaker_role_ref) # {}
       ELSE TRUE
    /\ \E r \in {begin_execute(sid)} :
          /\ inflight' = [inflight EXCEPT ![w] = r.call]
          /\ last' = IF r.exc = "" THEN last
                     ELSE Outcome("execute_next", sid, r.exc)
    /\ UNCHANGED <<flow_templates, flow_steps, edits, step_execution_logs,
                   sessions, session_roles, messages, cache, clock>>

\* execute_next_step of one request, from the LLM's answer to the commit.
CompleteExecute(w, content) ==
    /\ inflight[w].open
    /\ \E r \in {complete_execute(inflight[w], content)} :
          /\ messages' = r.messages
          /\ sessions' = r.sessions
          /\ last' = [Outcome("execute_next", inflight[w].sid, r.exc) EXCEPT
                        !.step = inflight[w].step.id,
                        !.exit_met = (r.exc = "" /\ r.exit_met),
                        !.context = IF r.exc = "" THEN inflight[w].context ELSE <<>>,
                        !.is_finished = (r.exc = ""
                                         /\ r.sessions[inflight[w].sid].status = "finished"),
                        !.next_step_id = IF r.exc = ""
                                         THEN r.sessions[inflight[w].sid].current_step_id
                                         ELSE None]
    /\ inflight' = [inflight EXCEPT ![w] = NoCall]
    /\ UNCHANGED <<flow_templates, flow_steps, edits, step_execution_logs, session_roles,
                   cache, clock>>

\* FlowEngineService.execute_next_step with the endpoint's reply as input.
\* An exception out of the generation is caught by the except clause of
\* execute_next_step like one at the flush of the message that follows it.
ExecuteNextStepWith(sid, reply) ==
    /\ Cardinality(SessionMessageIds(messages, sid)) < MaxMsgs
    /\ \E g \in {generate_llm_response_sync(reply)} :
          \E r \in {execute_next_step(sid, g.content, IF g.raised THEN "flush" ELSE "none")} :
              /\ last' = [adapter |-> reply.kind] @@ r.out
              /\ sessions' = r.sessions
              /\ session_roles' = r.session_roles
              /\ messages' = r.messages
    /\ TableFrame

\* SessionExecution.post: the executable check, then execute_next_step.
SessionExecutionPost(sid, content, fault) ==
    /\ Cardinality(SessionMessageIds(messages, sid)) < MaxMsgs
    /\ IF ~is_session_executable(sid)
       THEN /\ last' = [Outcome("execute_next", sid, "NotExecutable") EXCEPT
                          !.error_code = "NOT_EXECUTABLE"]
            /\ UNCHANGED <<sessions, session_roles, messages>>
       ELSE \E r \in {execute_next_step(sid, content, fault)} :
               /\ last' = [r.out EXCEPT !.error_code = ExecutionErrorCode(r.out.exc)]
               /\ sessions' = r.sessions
               /\ session_roles' = r.session_roles
               /\ messages' = r.messages
    /\ TableFrame

\* FlowTemplateService.update_template
UpdateTemplate(tid, update_data) ==
    /\ edits < MaxEdits
    /\ edits' = edits + 1
    /\ \E r \in {update_template(tid, update_data)} :
          /\ last' = [Outcome("update_template", None, r.exc) EXCEPT !.template_id = tid]
          /\ flow_templates' = r.tables.flow_templates
          /\ flow_steps' = r.tables.flow_steps
    /\ UNCHANGED <<sessions, session_roles, messages, step_execution_logs, inflight,
                   cache, clock>>

\* FlowTemplateService.create_template
CreateTemplate(steps_data) ==
    /\ Cardinality(flow_templates) < MaxTemplates
    /\ \E r \in {create_template(steps_data)} :
          /\ last' = [Outcome("create_template", None, r.exc) EXCEPT
                         !.template_id = NewId({ t.id : t \in flow_templates })]
          /\ flow_templates' = r.tables.flow_templates
          /\ flow_steps' = r.tables.flow_steps
    /\ UNCHANGED <<sessions, session_roles, messages, step_execution_logs, inflight, edits,
                   cache, clock>>

\* FlowTemplateService.delete_template(template_id, soft_delete=True), as
\* the flows API calls it.
DeleteTemplate(tid) ==
    /\ edits < MaxEdits
    /\ edits' = edits + 1
    /\ LET exc == IF ~TemplateExists(tid) THEN "TemplateNotFoundError" ELSE ""
       IN /\ last' = Outcome("delete_template", None, exc)
          /\ flow_templates' = { IF t.id = tid THEN [t EXCEPT !.is_active = FALSE] ELSE t :
                                   t \in flow_templates }
    /\ UNCHANGED <<flow_steps, sessions, session_roles, messages,
                   step_execution_logs, inflight, cache, clock>>

\* SessionBranch.post: SessionService.create_branch_session and the error
\* code answered, over a messages table of max_rows rows.
CreateBranchSessionWithin(sid, mid, max_rows) ==
    /\ \E r \in {create_branch_session(sid, mid)} :
          /\ Len(r.sessions) <= MaxSessions + MaxForks
          /\ Len(r.messages) <= max_rows
          /\ last' = [Outcome("fork", sid, r.exc) EXCEPT
                         !.error_code = BranchErrorCode(r.exc), !.message_id = mid]
          /\ sessions' = r.sessions
          /\ session_roles' = r.session_roles
          /\ messages' = r.messages
    /\ TableFrame

CreateBranchSession(sid, mid) == CreateBranchSessionWithin(sid, mid, MaxRows)

\* A delete that does not look at the status.
DeleteAlways(status) == TRUE

\* SessionDetail.delete: a running session is not deleted.
DeleteAllowed(status) == status # "running"

\* SessionDetail.delete. The relationships of Session have no delete cascade:
\* the flush sets session_id of the session's SessionRole and Message rows to
\* NULL, which their NOT NULL columns refuse, and the request is rolled back.
\* The ids of sessions being the positions of the rows, the row deleted is
\* the newest one.
DeleteSession(sid) ==
    LET error_code ==
            IF ~SessionExists(sid) THEN "NOT_FOUND"
            ELSE IF ~DeleteAllowed(sessions[sid].status) THEN "INVALID_STATE"
            ELSE IF \/ \E r \in session_roles : r.session_id = sid
                    \/ SessionMessageIds(messages, sid) # {}
                 THEN "INTERNAL_ERROR"
            ELSE ""
    IN /\ error_code = "" => sid = Len(sessions)
       /\ last' = [Outcome("delete", sid, error_code) EXCEPT !.error_code = error_code]
       /\ sessions' = IF error_code = "" THEN SubSeq(sessions, 1, Len(sessions) - 1)
                      ELSE sessions
       /\ UNCHANGED <<session_roles, messages>>
       /\ TableFrame

\* What a call on the log table leaves alone.
\* What the log operations that invalidate the progress cache leave alone.
LogTableFrame ==
    UNCHANGED <<flow_templates, flow_steps, sessions, session_roles, messages, inflight, edits,
                clock>>

LogFrame ==
    UNCHANGED <<flow_templates, flow_steps, sessions, session_roles, messages, inflight, edits,
                cache, clock>>

\* The outcome of a call on the log table.
LogOutcome(op, sid, log_id, returned) ==
    [log_id |-> log_id, returned |-> returned] @@ Outcome(op, sid, "")

\* StepProgressService.create_step_log; the entries of one session are
\* numbered distinctly by the caller.
CreateStepLog(session_id, step_id, execution_order) ==
    /\ Cardinality(step_execution_logs) < MaxLogs
    /\ \A l \in step_execution_logs :
           l.session_id = session_id => l.execution_order # execution_order
    /\ step_execution_logs' =
           create_step_log(step_execution_logs, session_id, step_id, execution_order, clock)
    /\ last' = LogOutcome("create_step_log", session_id,
                          NewId({ l.id : l \in step_execution_logs }), TRUE)
    /\ LogFrame

\* StepProgressService.start_step_execution
StartStepExecution(log_id) ==
    /\ \E r \in {set_log_status(step_execution_logs, log_id, "running")} :
          /\ step_execution_logs' = r.logs
          /\ last' = LogOutcome("start_step_execution", None, log_id, r.returned)
    /\ cache' = invalidate_for_log(cache, step_execution_logs, log_id)
    /\ LogTableFrame

\* StepProgressService.complete_step_execution
CompleteStepExecution(log_id) ==
    /\ \E r \in {set_log_status(step_execution_logs, log_id, "completed")} :
          /\ step_execution_logs' = r.logs
          /\ last' = LogOutcome("complete_step_execution", None, log_id, r.returned)
    /\ cache' = invalidate_for_log(cache, step_execution_logs, log_id)
    /\ LogTableFrame

\* StepProgressService.fail_step_execution
FailStepExecution(log_id) ==
    /\ \E r \in {set_log_status(step_execution_logs, log_id, "failed")} :
          /\ step_execution_logs' = r.logs
          /\ last' = LogOutcome("fail_step_execution", None, log_id, r.returned)
    /\ cache' = invalidate_for_log(cache, step_execution_logs, log_id)
    /\ LogTableFrame

\* StepProgressCleanup.post: days_to_keep is checked, then clean_old_logs.
StepProgressCleanupPost(days_to_keep) ==
    /\ IF days_to_keep < 1
       THEN /\ last' = [LogOutcome("cleanup", None, None, 0) EXCEPT
                          !.ok = FALSE, !.error_code = "400"]
            /\ UNCHANGED step_execution_logs
       ELSE \E r \in {clean_old_logs(step_execution_logs, clock, days_to_keep)} :
               /\ step_execution_logs' = r.logs
               /\ last' = LogOutcome("cleanup", None, None, r.returned)
    /\ UNCHANGED <<flow_templates, flow_steps, sessions, session_roles, messages, inflight,
                   edits, cache, clock>>

\* A day goes by.
DayPasses ==
    /\ clock < MaxDays * SecondsPerDay
    /\ clock' = clock + SecondsPerDay
    /\ last' = LogOutcome("day", None, None, 0)
    /\ UNCHANGED <<flow_templates, flow_steps, sessions, session_roles, messages, inflight,
                   edits, cache, step_execution_logs>>

\* StepProgressService.get_session_step_progress(use_cache=True)
GetSessionStepProgress(session_id, include_details, page, per_page) ==
    /\ \E r \in {get_session_step_progress(step_execution_logs, cache, clock, session_id,
                                            include_details, page, per_page)} :
          /\ cache' = r.cache
          /\ last' = [result |-> r.result, hit |-> r.hit, include_details |-> include_details,
                      page |-> page, per_page |-> per_page]
                       @@ LogOutcome("get_session_step_progress", session_id, None, TRUE)
    /\ UNCHANGED step_execution_logs
    /\ LogTableFrame

\* StepExecutionLog.get_session_progress_summary
GetSessionProgress(session_id) ==
    /\ last' = [summary |-> get_session_progress_summary(step_execution_logs, session_id)]
                 @@ LogOutcome("progress", session_id, None, TRUE)
    /\ UNCHANGED step_execution_logs
    /\ LogFrame

\* What a call on the cache leaves alone.
CacheFrame ==
    UNCHANGED <<flow_templates, flow_steps, sessions, session_roles, messages,
                step_execution_logs, inflight, edits>>

\* CacheService.set
CacheSet(key, value, ttl) ==
    /\ \E r \in {cache_set(cache, clock, key, value, ttl)} :
          /\ cache' = r.cache
          /\ last' = [op |-> "cache_set", key |-> key, value |-> value,
                      returned |-> r.returned]
    /\ UNCHANGED clock
    /\ CacheFrame

\* CacheService.get with the default left at None.
CacheGet(key) ==
    /\ last' = [op |-> "cache_get", key |-> key,
                value |-> cache_get(cache, clock, key, PyNone), returned |-> TRUE]
    /\ UNCHANGED <<cache, clock>>
    /\ CacheFrame

\* CacheService.exists
CacheExists(key) ==
    /\ last' = [op |-> "cache_exists", key |-> key, value |-> PyNone,
                returned |-> cache_exists(cache, clock, key)]
    /\ UNCHANGED <<cache, clock>>
    /\ CacheFrame

\* CacheService.delete
CacheDelete(key) ==
    /\ \E r \in {cache_delete(cache, clock, key)} :
          /\ cache' = r.cache
          /\ last' = [op |-> "cache_delete", key |-> key, value |-> PyNone,
                      returned |-> r.returned]
    /\ UNCHANGED clock
    /\ CacheFrame

\* time.time() moves on by d seconds.
Tick(d) ==
    /\ clock + d <= MaxClock
    /\ clock' = clock + d
    /\ last' = [op |-> "tick", key |-> "", value |-> PyNone, returned |-> TRUE]
    /\ UNCHANGED cache
    /\ CacheFrame

\* RateLimitService.check_rate_limit
CheckRateLimit(limit_type, identifier, weight) ==
    /\ \E r \in {check_rate_limit(cache, clock, limit_type, identifier, weight)} :
          /\ cache' = r.cache
          /\ last' = [op |-> "check_rate_limit", limit_type |-> limit_type,
                      identifier |-> identifier, weight |-> weight,
                      result |-> r.result]
    /\ UNCHANGED clock
    /\ CacheFrame

\* RateLimitService.get_usage_stats
GetUsageStats(limit_type, identifier) ==
    /\ last' = [op |-> "get_usage_stats", limit_type |-> limit_type,
                identifier |-> identifier, weight |-> 0,
                result |-> get_usage_stats(cache, clock, limit_type, identifier)]
    /\ UNCHANGED <<cache, clock>>
    /\ CacheFrame

TemplateIds == {1, 2}

\* Session ids a request may name once sessions are forked.
AllSessionIds == 1..(MaxSessions + MaxForks)

Next ==
    \/ \E tid \in TemplateIds, m \in BOOLEAN : CreateSession(tid, m)
    \/ \E sid \in SessionIds : StartSession(sid)
    \/ \E sid \in SessionIds : PauseSession(sid)
    \/ \E sid \in SessionIds : ResumeSession(sid)
    \/ \E sid \in SessionIds, reason \in Reasons : FinishSession(sid, reason)
    \/ \E sid \in SessionIds, c \in Contents, f \in Faults : ExecuteNextStep(sid, c, f)
    \/ \E sid \in SessionIds, c \in Contents, f \in Faults : SessionExecutionPost(sid, c, f)
    \/ \E tid \in TemplateIds, ud \in UpdateRequests : UpdateTemplate(tid, ud)
    \/ \E tid \in TemplateIds : DeleteTemplate(tid)

Spec == Init /\ [][Next]_vars

\* Sessions and their branch sessions: the session operations on up to
\* MaxSessions + MaxForks sessions over a messages table of MaxRows rows.
NextFork ==
    \/ \E tid \in TemplateIds, m \in BOOLEAN : CreateSession(tid, m)
    \/ \E sid \in AllSessionIds : StartSession(sid)
    \/ \E sid \in AllSessionIds : PauseSession(sid)
    \/ \E sid \in AllSessionIds : ResumeSession(sid)
    \/ \E sid \in AllSessionIds, reason \in Reasons : FinishSession(sid, reason)
    \/ \E sid \in AllSessionIds, c \in Contents, f \in {"none", "commit"} :
          Len(messages) < MaxRows /\ ExecuteNextStep(sid, c, f)
    \/ \E sid \in AllSessionIds, mid \in 1..(Len(messages) + 1) :
          CreateBranchSession(sid, mid)

SpecFork == Init /\ [][NextFork]_vars

\* The template store: create, update and delete requests with step lists
\* of every shape.
NextTemplates ==
    \/ \E sd \in RequestLists : CreateTemplate(sd)
    \/ \E tid \in TemplateIds, ud \in TemplateRequests : UpdateTemplate(tid, ud)
    \/ \E tid \in TemplateIds : DeleteTemplate(tid)

SpecTemplates == Init /\ [][NextTemplates]_vars

\* Two requests whose execute_next_step calls overlap, on sessions created
\* with a role mapping.
NextRace ==
    \/ CreateSession(1, TRUE)
    \/ \E sid \in SessionIds : StartSession(sid)
    \/ \E sid \in SessionIds : PauseSession(sid)
    \/ \E sid \in SessionIds : ResumeSession(sid)
    \/ \E w \in Workers, sid \in SessionIds : BeginExecute(w, sid)
    \/ \E w \in Workers, c \in Contents : CompleteExecute(w, c)

SpecRace == Init /\ [][NextRace]_vars

\* Sessions run with the generation endpoint answering or failing.
NextAdapter ==
    \/ \E m \in BOOLEAN : CreateSession(1, m)
    \/ \E sid \in SessionIds : StartSession(sid)
    \/ \E sid \in SessionIds, reply \in Replies : ExecuteNextStepWith(sid, reply)

SpecAdapter == Init /\ [][NextAdapter]_vars

\* Sessions created, run and deleted.
NextDelete ==
    \/ \E m \in BOOLEAN : CreateSession(1, m)
    \/ \E sid \in SessionIds : StartSession(sid)
    \/ \E sid \in SessionIds : PauseSession(sid)
    \/ \E sid \in SessionIds, reason \in Reasons : FinishSession(sid, reason)
    \/ \E sid \in SessionIds, c \in Contents : ExecuteNextStep(sid, c, "none")
    \/ \E sid \in SessionIds : DeleteSession(sid)

SpecDelete == Init /\ [][NextDelete]_vars

\* Sessions run over legacy step rows whose loop or exit configuration has
\* an unexpected shape, with generated contents that are not JSON objects.
LegacyStepKinds ==
    { StepData("host", "ask_question", "none", NullText, NullText, NullText),
      StepData("guest", "answer_question", "last_message", NullText, ExitText, NullText),
      StepData("guest", "answer_question", "all", NullText, ListText, ListText),
      StepData("host", "conclude", "none", NullText, NullText, LoopText(NotANumber, NoRef)) }

LegacyStepLists ==
    UNION { { WithOrder(ks) : ks \in [1..n -> LegacyStepKinds] } : n \in 1..MaxSteps }

MalformedContents == {"plain", "json_list", "json_null"}

InitLegacy ==
    /\ flow_templates = { [id |-> 1, is_active |-> TRUE] }
    /\ \E steps \in LegacyStepLists : flow_steps = StepRows(1, steps, 0)
    /\ sessions = <<>>
    /\ session_roles = {}
    /\ messages = <<>>
    /\ step_execution_logs = {}
    /\ inflight = [w \in Workers |-> NoCall]
    /\ cache = NoRedis
    /\ clock = 0
    /\ edits = 0
    /\ last = Outcome("init", None, "")

NextLegacy ==
    \/ \E m \in BOOLEAN : CreateSession(1, m)
    \/ \E sid \in SessionIds : StartSession(sid)
    \/ \E sid \in SessionIds, c \in MalformedContents : ExecuteNextStep(sid, c, "none")

SpecLegacy == InitLegacy /\ [][NextLegacy]_vars

\* Sessions run over steps whose context_scope is a role filter: one
\* reference, a JSON list of references, or something else.
ScopeStepKinds ==
    { StepData("host", "ask_question", "none", NullText, NullText, NullText),
      StepData("guest", "answer_question", "host", NullText, NullText, LoopText(3, NoRef)),
      StepData("guest", "answer_question", "[\"host\", \"ghost\"]", NullText, NullText,
               LoopText(3, NoRef)),
      StepData("host", "review_answer", "[\"guest\", \"host\"]", NullText, NullText,
               LoopText(3, NoRef)),
      StepData("host", "review_answer", "[\"ghost\"]", NullText, NullText, NullText),
      StepData("host", "ask_question", "{\"host\": 1}", NullText, NullText, NullText),
      StepData("guest", "answer_question", "moderator", NullText, NullText,
               LoopText(3, NoRef)) }

ScopeStepLists ==
    UNION { { WithOrder(ks) : ks \in [1..n -> ScopeStepKinds] } : n \in 1..MaxSteps }

InitScope ==
    /\ flow_templates = { [id |-> 1, is_active |-> TRUE] }
    /\ \E steps \in ScopeStepLists : flow_steps = StepRows(1, steps, 0)
    /\ sessions = <<>>
    /\ session_roles = {}
    /\ messages = <<>>
    /\ step_execution_logs = {}
    /\ inflight = [w \in Workers |-> NoCall]
    /\ cache = NoRedis
    /\ clock = 0
    /\ edits = 0
    /\ last = Outcome("init", None, "")

NextScope ==
    \/ \E m \in BOOLEAN : CreateSession(1, m)
    \/ \E sid \in SessionIds : StartSession(sid)
    \/ \E sid \in SessionIds, c \in Contents : ExecuteNextStep(sid, c, "none")

SpecScope == InitScope /\ [][NextScope]_vars

\* Sessions whose speakers are resolved by the mapping, by name, by a part
\* of a name, or not at all.
SpeakerStepKinds ==
    { StepData("host", "ask_question", "none", NullText, NullText, NullText),
      StepData("guest", "answer_question", "none", NullText, NullText, NullText),
      StepData("gue", "answer_question", "none", NullText, NullText, NullText),
      StepData("ghost", "ask_question", "none", NullText, NullText, NullText) }

SpeakerStepLists ==
    UNION { { WithOrder(ks) : ks \in [1..n -> SpeakerStepKinds] } : n \in 1..MaxSteps }

\* role_mappings of a request: some of the template's references, each
\* mapped to a role.
RoleMappings(steps, tid) ==
    LET refs == { r.speaker_role_ref : r \in TemplateSteps(steps, tid) }
    IN UNION { [some -> { r.id : r \in Roles }] : some \in SUBSET refs }

MappingPairs(f) == { <<ref, f[ref]>> : ref \in DOMAIN f }

InitSpeakers ==
    /\ flow_templates = { [id |-> 1, is_active |-> TRUE] }
    /\ \E steps \in SpeakerStepLists : flow_steps = StepRows(1, steps, 0)
    /\ sessions = <<>>
    /\ session_roles = {}
    /\ messages = <<>>
    /\ step_execution_logs = {}
    /\ inflight = [w \in Workers |-> NoCall]
    /\ cache = NoRedis
    /\ clock = 0
    /\ edits = 0
    /\ last = Outcome("init", None, "")

NextSpeakers ==
    \/ CreateSession(1, FALSE)
    \/ \E f \in RoleMappings(flow_steps, 1) : CreateSessionMapped(1, MappingPairs(f))
    \/ \E sid \in SessionIds : StartSession(sid)
    \/ \E sid \in SessionIds, c \in Contents : ExecuteNextStep(sid, c, "none")

SpecSpeakers == InitSpeakers /\ [][NextSpeakers]_vars

\* The calls of StepProgressService on the log table, in any order.
LogIds == 1..MaxLogs

NextLogs ==
    \/ \E sid \in AllSessionIds, o \in 1..MaxLogs : CreateStepLog(sid, 1, o)
    \/ \E id \in LogIds : StartStepExecution(id)
    \/ \E id \in LogIds : CompleteStepExecution(id)
    \/ \E id \in LogIds : FailStepExecution(id)
    \/ \E sid \in AllSessionIds : GetSessionProgress(sid)

\* The store with the log table alone in use.
InitLogs ==
    /\ flow_templates = {}
    /\ flow_steps = {}
    /\ sessions = <<>>
    /\ session_roles = {}
    /\ messages = <<>>
    /\ step_execution_logs = {}
    /\ inflight = [w \in Workers |-> NoCall]
    /\ cache = NoRedis
    /\ clock = 0
    /\ edits = 0
    /\ last = Outcome("init", None, "")

SpecLogs == InitLogs /\ [][NextLogs]_vars

\* Templates built from requests whose steps carry an explicit next
\* pointer: none, the id the first step gets, or an id no step has.
PointerTargets == {None, 1, 9}

PointerStepKinds ==
    { [StepData(speaker, "ask_question", "none", NullText, NullText, NullText)
         EXCEPT !.next_step_id = target] :
        speaker \in {"host", "guest"}, target \in PointerTargets }

PointerStepLists ==
    UNION { { WithOrder(ks) : ks \in [1..n -> PointerStepKinds] } : n \in 1..MaxSteps }

InitPointer ==
    /\ flow_templates = {}
    /\ flow_steps = {}
    /\ sessions = <<>>
    /\ session_roles = {}
    /\ messages = <<>>
    /\ step_execution_logs = {}
    /\ inflight = [w \in Workers |-> NoCall]
    /\ cache = NoRedis
    /\ clock = 0
    /\ edits = 0
    /\ last = Outcome("init", None, "")

NextPointer ==
    \/ \E sd \in PointerStepLists : CreateTemplate(sd)
    \/ CreateSession(1, FALSE)
    \/ \E sid \in SessionIds : StartSession(sid)
    \/ \E sid \in SessionIds, c \in Contents : ExecuteNextStep(sid, c, "none")

SpecPointer == InitPointer /\ [][NextPointer]_vars

\* The operations exposed on sessions, the update endpoint among them.
PutStatuses == UpdateSessionStatuses \cup {"absent", "archived"}

PutStepKinds ==
    { StepData("host", "ask_question", "none", NullText, NullText, NullText),
      StepData("guest", "answer_question", "last_message", NullText, NullText, NullText) }

PutStepLists ==
    UNION { { WithOrder(ks) : ks \in [1..n -> PutStepKinds] } : n \in 0..MaxSteps }

InitPut ==
    /\ flow_templates = { [id |-> 1, is_active |-> TRUE] }
    /\ \E steps \in PutStepLists : flow_steps = StepRows(1, steps, 0)
    /\ sessions = <<>>
    /\ session_roles = {}
    /\ messages = <<>>
    /\ step_execution_logs = {}
    /\ inflight = [w \in Workers |-> NoCall]
    /\ cache = NoRedis
    /\ clock = 0
    /\ edits = 0
    /\ last = Outcome("init", None, "")

NextPut ==
    \/ CreateSession(1, FALSE)
    \/ \E sid \in AllSessionIds : StartSession(sid)
    \/ \E sid \in AllSessionIds : PauseSession(sid)
    \/ \E sid \in AllSessionIds : ResumeSession(sid)
    \/ \E sid \in AllSessionIds, reason \in Reasons : FinishSession(sid, reason)
    \/ \E sid \in AllSessionIds :
          Len(messages) < MaxRows /\ ExecuteNextStep(sid, "plain", "none")
    \/ \E sid \in AllSessionIds, status \in PutStatuses : SessionDetailPut(sid, status)
    \/ \E sid \in AllSessionIds, mid \in 1..(Len(messages) + 1) :
          CreateBranchSession(sid, mid)

SpecPut == InitPut /\ [][NextPut]_vars

\* Forks of sessions whose steps address a target role, with and without
\* a role mapping, over histories of up to two Messages.
ForkStepKinds ==
    { [StepData("host", "ask_question", "none", NullText, NullText, NullText)
         EXCEPT !.target_role_ref = "guest"],
      [StepData("guest", "answer_question", "none", NullText, NullText, NullText)
         EXCEPT !.target_role_ref = "host"] }

ForkStepLists ==
    UNION { { WithOrder(ks) : ks \in [1..n -> ForkStepKinds] } : n \in 1..MaxSteps }

InitForkRefs ==
    /\ flow_templates = { [id |-> 1, is_active |-> TRUE] }
    /\ \E steps \in ForkStepLists : flow_steps = StepRows(1, steps, 0)
    /\ sessions = <<>>
    /\ session_roles = {}
    /\ messages = <<>>
    /\ step_execution_logs = {}
    /\ inflight = [w \in Workers |-> NoCall]
    /\ cache = NoRedis
    /\ clock = 0
    /\ edits = 0
    /\ last = Outcome("init", None, "")

NextForkRefs ==
    \/ \E m \in BOOLEAN : CreateSession(1, m)
    \/ \E sid \in AllSessionIds : StartSession(sid)
    \/ \E sid \in AllSessionIds, c \in Contents :
          Len(messages) < MaxForkRows /\ ExecuteNextStep(sid, c, "none")
    \/ \E sid \in AllSessionIds, mid \in 1..(Len(messages) + 1) :
          CreateBranchSessionWithin(sid, mid, MaxForkRows)

SpecForkRefs == InitForkRefs /\ [][NextForkRefs]_vars

\* Progress queries of one session with the cache in use, between changes
\* of its step logs.
Pages == {1, 2}

PageSizes == {1, 2}

InitProgress ==
    /\ flow_templates = {}
    /\ flow_steps = {}
    /\ sessions = <<>>
    /\ session_roles = {}
    /\ messages = <<>>
    /\ step_execution_logs = {}
    /\ inflight = [w \in Workers |-> NoCall]
    /\ cache = [enabled |-> TRUE, entries |-> {}]
    /\ clock = 0
    /\ edits = 0
    /\ last = Outcome("init", None, "")

NextProgress ==
    \/ \E o \in 1..MaxLogs : CreateStepLog(1, 1, o)
    \/ \E id \in LogIds : StartStepExecution(id)
    \/ \E id \in LogIds : CompleteStepExecution(id)
    \/ \E id \in LogIds : FailStepExecution(id)
    \/ \E d \in BOOLEAN, page \in Pages, per_page \in PageSizes :
          GetSessionStepProgress(1, d, page, per_page)

SpecProgress == InitProgress /\ [][NextProgress]_vars

\* The log table as days go by and the cleanup endpoint is called.
NextCleanup ==
    \/ \E o \in 1..MaxLogs : CreateStepLog(1, 1, o)
    \/ \E id \in LogIds : StartStepExecution(id)
    \/ \E id \in LogIds : CompleteStepExecution(id)
    \/ \E id \in LogIds : FailStepExecution(id)
    \/ \E days \in 0..MaxDays : StepProgressCleanupPost(days)
    \/ DayPasses

SpecCleanup == InitLogs /\ [][NextCleanup]_vars

\* The cache on its own, with Redis answering or not.
CacheKeys == {"k1", "k2"}

CacheValues ==
    { PyScalar("str", "a"), PyScalar("int", "1"), PyNone,
      PySeq("list", <<PyAtom("int", "1")>>),
      PySeq("tuple", <<PyAtom("int", "1")>>),
      PyDict(<<PyAtom("str", "message")>>, <<PyAtom("str", "a")>>),
      PyDict(<<PyAtom("int", "1")>>, <<PyAtom("str", "a")>>) }

CacheTtls == {0, 60}

NextCache ==
    \/ \E k \in CacheKeys, v \in CacheValues, ttl \in CacheTtls : CacheSet(k, v, ttl)
    \/ \E k \in CacheKeys : CacheGet(k)
    \/ \E k \in CacheKeys : CacheExists(k)
    \/ \E k \in CacheKeys : CacheDelete(k)
    \/ Tick(300)

InitCache ==
    /\ flow_templates = {}
    /\ flow_steps = {}
    /\ sessions = <<>>
    /\ session_roles = {}
    /\ messages = <<>>
    /\ step_execution_logs = {}
    /\ inflight = [w \in Workers |-> NoCall]
    /\ cache \in {NoRedis, [enabled |-> TRUE, entries |-> {}]}
    /\ clock = 0
    /\ edits = 0
    /\ last = [op |-> "init", key |-> "", value |-> PyNone, returned |-> TRUE]

SpecCache == InitCache /\ [][NextCache]_vars

\* The rate limiter over the cache.
LimitTypes == {"export", "auth"}

Identifiers == {"user:1"}

Weights == {1, 2}

NextRate ==
    \/ \E t \in LimitTypes, i \in Identifiers, w \in Weights : CheckRateLimit(t, i, w)
    \/ \E t \in LimitTypes, i \in Identifiers : GetUsageStats(t, i)
    \/ Tick(900)

InitRate ==
    /\ flow_templates = {}
    /\ flow_steps = {}
    /\ sessions = <<>>
    /\ session_roles = {}
    /\ messages = <<>>
    /\ step_execution_logs = {}
    /\ inflight = [w \in Workers |-> NoCall]
    /\ cache \in {NoRedis, [enabled |-> TRUE, entries |-> {}]}
    /\ clock = 0
    /\ edits = 0
    /\ last = [op |-> "init"]

SpecRate == InitRate /\ [][NextRate]_vars

\* One identifier making authentication attempts of weight 1, with pauses a
\* little longer than the window of the rule (300 s) and shorter than the
\* life of its usage record (window + 60 s).
WindowTypes == {"auth"}

WindowPauses == {330, 900}

NextWindow ==
    \/ \E t \in WindowTypes, i \in Identifiers : CheckRateLimit(t, i, 1)
    \/ \E d \in WindowPauses : Tick(d)

SpecWindow == InitRate /\ [][NextWindow]_vars

\* ================================================================== claims
SessionTables == <<sessions, session_roles, messages, step_execution_logs>>

\* C1: execute_next on a session that is not running fails and mutates
\* nothing (no Message, no SessionRole, same status, step, round and
\* count), and execute_next on a session id that does not exist fails with
\* NotFound.
C1_RejectedExecuteNext ==
    [][ last'.op = "execute_next" =>
          /\ (SessionExists(last'.sid) /\ sessions[last'.sid].status # "running")
                => (~last'.ok /\ UNCHANGED SessionTables)
          /\ ~SessionExists(last'.sid)
                => /\ ~last'.ok
                   /\ UNCHANGED SessionTables
                   /\ (last'.exc = "SessionNotFoundError" \/ last'.error_code = "NOT_FOUND")
      ]_vars

\* C1, the part the code keeps: a rejected execute_next mutates nothing.
C1_RejectedExecuteNextMutatesNothing ==
    [][ (last'.op = "execute_next" /\ ~is_session_executable(last'.sid))
          => (~last'.ok /\ UNCHANGED SessionTables) ]_vars

\* C2: an execute_next attempt on a running session that fails leaves the
\* session row (status, current step, round, count), the Messages and the
\* SessionRoles exactly as before, so the session is still running and the
\* call can be retried.
C2_FailedStepRollsBack ==
    [][ (last'.op = "execute_next" /\ ~last'.ok /\ is_session_executable(last'.sid))
          => /\ UNCHANGED SessionTables
             /\ sessions'[last'.sid].status = "running" ]_vars

\* A failed attempt on a running session without role mapping whose speaker
\* resolves and whose context is empty: the temporary SessionRole (and the
\* Message) had been flushed when the database error struck.
C2_Witness ==
    /\ last.op = "execute_next" /\ ~last.ok /\ last.step # None
    /\ is_session_executable(last.sid)
    /\ session_roles = {}
    /\ \E r \in FlowStepGet(flow_steps, last.step) :
          /\ r.context_scope = "none"
          /\ get_role_for_execution(session_roles, last.sid, r.speaker_role_ref) # {}

\* C3: start succeeds only on a not-started session whose template has a
\* step; it sets status running, current step = the lowest-order step and
\* round 1, and changes nothing else.  Any other start fails and leaves the
\* session unchanged.
LowestOrderStep(rows) == CHOOSE r \in rows : \A q \in rows : r.order <= q.order

C3_Start ==
    [][ last'.op = "start" =>
          LET sid == last'.sid
              rows == TemplateSteps(flow_steps, sessions[sid].flow_template_id)
          IN IF SessionExists(sid) /\ sessions[sid].status = "not_started" /\ rows # {}
             THEN /\ last'.ok
                  /\ sessions' = [sessions EXCEPT
                                    ![sid].status = "running",
                                    ![sid].current_step_id = LowestOrderStep(rows).id,
                                    ![sid].current_round = 1]
                  /\ UNCHANGED <<session_roles, messages>>
             ELSE ~last'.ok /\ UNCHANGED SessionTables
      ]_vars

\* A started session on a two-step template, pointing at the step of order 1.
C3_Witness ==
    /\ last.op = "start" /\ last.ok
    /\ Cardinality(TemplateSteps(flow_steps, sessions[last.sid].flow_template_id)) = 2
    /\ sessions[last.sid].status = "running"
    /\ sessions[last.sid].current_round = 1
    /\ \E r \in FlowStepGet(flow_steps, sessions[last.sid].current_step_id) : r.order = 1

\* C4: pause succeeds only from running (giving paused) and resume only from
\* paused (giving running); from any other status they fail with
\* InvalidState and mutate nothing.  A successful pause or resume changes
\* the status only, so after pause then resume the current step, round,
\* count and Messages are those before the pause.
C4_PauseResume ==
    [][ last'.op \in {"pause", "resume"} =>
          LET sid == last'.sid
              from == IF last'.op = "pause" THEN "running" ELSE "paused"
              to == IF last'.op = "pause" THEN "paused" ELSE "running"
          IN IF SessionExists(sid) /\ sessions[sid].status = from
             THEN /\ last'.ok
                  /\ sessions' = [sessions EXCEPT ![sid].status = to]
                  /\ UNCHANGED <<session_roles, messages>>
             ELSE /\ ~last'.ok
                  /\ UNCHANGED SessionTables
                  /\ SessionExists(sid) => /\ last'.exc = "InvalidSessionStateError"
                                           /\ last'.error_code = "INVALID_STATE"
      ]_vars

\* A session resumed after a pause that has already executed a step.
C4_Witness ==
    /\ last.op = "resume" /\ last.ok
    /\ sessions[last.sid].status = "running"
    /\ sessions[last.sid].executed_steps_count > 0
    /\ SessionMessageIds(messages, last.sid) # {}

\* C5: finish takes a not-started, running or paused session to finished,
\* sets the end time and, when a reason is given, records it; execute_next
\* on a finished session is rejected.
C5_Finish ==
    [][ /\ (last'.op = "finish" /\ SessionExists(last'.sid)
              /\ sessions[last'.sid].status \in {"not_started", "running", "paused"})
            => /\ last'.ok
               /\ sessions'[last'.sid].status = "finished"
               /\ sessions'[last'.sid].ended_at # None
               /\ last'.reason # "" => sessions'[last'.sid].error_reason = last'.reason
               /\ UNCHANGED <<session_roles, messages>>
        /\ (last'.op = "execute_next" /\ SessionExists(last'.sid)
              /\ sessions[last'.sid].status = "finished")
            => (~last'.ok /\ UNCHANGED SessionTables)
      ]_vars

\* A running session with a Message, just finished with a reason.
C5_Witness ==
    /\ last.op = "finish" /\ last.ok /\ last.reason # ""
    /\ sessions[last.sid].status = "finished"
    /\ sessions[last.sid].ended_at # None
    /\ sessions[last.sid].error_reason = last.reason
    /\ sessions[last.sid].current_step_id # None
    /\ SessionMessageIds(messages, last.sid) # {}

\* The live step rows of the session's template, and the template as the
\* session found it: unedited, no loop enabled, no exit condition declared.
LiveSteps(sid) == TemplateSteps(flow_steps, sessions[sid].flow_template_id)

StepAt(rows, k) == CHOOSE r \in rows : r.order = k

Linear(sid) ==
    /\ SessionExists(sid)
    /\ Range(sessions[sid].flow_snapshot) = LiveSteps(sid)
    /\ \A r \in LiveSteps(sid) :
          ~loop_config_dict(r).enabled /\ logic_config_dict(r).k # "exit"

\* C6: on a template of N steps without loop or exit condition, the k-th
\* successful execute_next after start runs step k and appends one Message
\* spoken by step k's role; for k < N the session stays running with current
\* step k+1, for k = N it becomes finished, and the execution info reports
\* finished only then.  With N = 2 and step 2 of scope last-utterance, the
\* context of step 2 is exactly Message #1.
C6_LinearRun ==
    [][ (last'.op = "execute_next" /\ last'.ok /\ Linear(last'.sid)) =>
          LET sid == last'.sid
              rows == LiveSteps(sid)
              N == Cardinality(rows)
              k == sessions[sid].executed_steps_count + 1
              m == messages'[Len(messages')]
          IN /\ k <= N
             /\ sessions[sid].current_step_id = StepAt(rows, k).id
             /\ Len(messages') = Len(messages) + 1
             /\ SubSeq(messages', 1, Len(messages)) = messages
             /\ m.session_id = sid
             /\ \E r \in session_roles' :
                   /\ r.id = m.speaker_session_role_id
                   /\ r.session_id = sid
                   /\ r.role_ref = StepAt(rows, k).speaker_role_ref
             /\ sessions'[sid].executed_steps_count = k
             /\ k < N => /\ sessions'[sid].status = "running"
                         /\ sessions'[sid].current_step_id = StepAt(rows, k + 1).id
                         /\ ~last'.is_finished
                         /\ last'.next_step_id = StepAt(rows, k + 1).id
             /\ k = N => /\ sessions'[sid].status = "finished"
                         /\ last'.is_finished
             /\ (N = 2 /\ k = 2 /\ StepAt(rows, 2).context_scope = "last_message")
                   => /\ Cardinality(SessionMessageIds(messages, sid)) = 1
                      /\ Range(last'.context) = SessionMessageIds(messages, sid)
                      /\ Len(last'.context) = 1
      ]_vars

\* The end-to-end case: host (scope none) then guest (scope last-utterance),
\* both executed, the guest's context was Message #1, the session finished.
C6_Witness ==
    /\ last.op = "execute_next" /\ last.ok /\ last.is_finished
    /\ Linear(last.sid)
    /\ Cardinality(LiveSteps(last.sid)) = 2
    /\ StepAt(LiveSteps(last.sid), 1).speaker_role_ref = "host"
    /\ StepAt(LiveSteps(last.sid), 2).speaker_role_ref = "guest"
    /\ StepAt(LiveSteps(last.sid), 2).context_scope = "last_message"
    /\ sessions[last.sid].status = "finished"
    /\ sessions[last.sid].executed_steps_count = 2
    /\ Len(messages) = 2
    /\ last.context = <<1>>

\* C7: after the last step of a template executes, with loop enabled and
\* max-loops = M on it and no exit: while the session's round (as the
\* controller sees it, after the step's own round increment) is below M the
\* next step is the lowest-order step whose speaker reference is the
\* configured loop-start reference, or the template's first step when none
\* is configured or none matches; once the round has reached M there is no
\* next step and the session finishes.
LoopStart(rows, ref) ==
    LET named == { r \in rows : r.speaker_role_ref = ref }
    IN IF ref # NoRef /\ named # {} THEN LowestOrderStep(named) ELSE LowestOrderStep(rows)

C7_LoopController ==
    [][ (/\ last'.op = "execute_next" /\ last'.ok /\ ~last'.exit_met
         /\ \E r \in LiveSteps(last'.sid) :
               /\ r.id = last'.step
               /\ r.order = Cardinality(LiveSteps(last'.sid))
               /\ loop_config_dict(r).enabled
               /\ loop_config_dict(r).max_loops # Absent)
        => LET sid == last'.sid
               rows == LiveSteps(sid)
               step == StepAt(rows, Cardinality(rows))
               M == loop_config_dict(step).max_loops
               start == LoopStart(rows, loop_config_dict(step).loop_start_role_ref)
           IN IF sessions'[sid].current_round < M
              THEN /\ sessions'[sid].status = "running"
                   /\ sessions'[sid].current_step_id = start.id
                   /\ last'.next_step_id = start.id
                   /\ ~last'.is_finished
              ELSE /\ sessions'[sid].status = "finished"
                   /\ sessions'[sid].ended_at # None
                   /\ last'.is_finished
      ]_vars

\* A loop-back to a designated loop-start step that is not the first step:
\* host, then guest (summarize, loop-start "guest", max-loops 3) at round 2.
C7_Witness ==
    /\ last.op = "execute_next" /\ last.ok /\ ~last.is_finished
    /\ Cardinality(LiveSteps(last.sid)) = 2
    /\ \E r \in LiveSteps(last.sid) :
          /\ r.id = last.step /\ r.order = 2
          /\ loop_config_dict(r).enabled
          /\ loop_config_dict(r).loop_start_role_ref = r.speaker_role_ref
          /\ StepAt(LiveSteps(last.sid), 1).speaker_role_ref # r.speaker_role_ref
          /\ sessions[last.sid].current_round < loop_config_dict(r).max_loops
    /\ sessions[last.sid].current_step_id = last.step
    /\ sessions[last.sid].current_round = 2

\* The round reached max-loops after a loop-back: the session finished.
C7_WitnessBound ==
    /\ last.op = "execute_next" /\ last.ok /\ last.is_finished
    /\ \E r \in LiveSteps(last.sid) :
          /\ r.id = last.step
          /\ loop_config_dict(r).enabled
          /\ sessions[last.sid].current_round = loop_config_dict(r).max_loops
    /\ sessions[last.sid].executed_steps_count > Cardinality(LiveSteps(last.sid))

\* The executed step declares the accept-flag exit condition, and a content
\* that parses as a JSON object whose accept field is the boolean true.
ExitDeclared(r) ==
    /\ logic_config_dict(r).k = "exit"
    /\ logic_config_dict(r).type = "llm_accept_flag"

Accepts(content) ==
    /\ JsonLoads(content).ok
    /\ JsonLoads(content).type = "object"
    /\ JsonLoads(content).accept = "True"

LatestOf(sid, ref) ==
    LET spoken == { i \in SessionMessageIds(messages, sid) :
                      \E r \in session_roles : /\ r.id = messages[i].speaker_session_role_id
                                               /\ r.session_id = sid
                                               /\ r.role_ref = ref }
    IN messages[Max(spoken)]

\* C8: when the executed step declares an accept-flag exit condition and the
\* Message it just produced satisfies it, the same execute_next finishes the
\* session (status finished, end time set, info reports finished), whatever
\* steps or loop iterations remain.
C8_ExitFinishesSession ==
    (/\ last.op = "execute_next" /\ last.ok
     /\ \E r \in FlowStepGet(flow_steps, last.step) :
           ExitDeclared(r) /\ Accepts(LatestOf(last.sid, r.speaker_role_ref).content))
    => /\ sessions[last.sid].status = "finished"
       /\ sessions[last.sid].ended_at # None
       /\ last.is_finished

\* C9: the accept-flag exit condition evaluates true if and only if the
\* latest Message of the step's speaker parses as a JSON object whose accept
\* field is the boolean true.
C9_AcceptFlagIff ==
    (/\ last.op = "execute_next" /\ last.ok
     /\ \E r \in FlowStepGet(flow_steps, last.step) : ExitDeclared(r))
    => \A r \in FlowStepGet(flow_steps, last.step) :
          last.exit_met <=> Accepts(LatestOf(last.sid, r.speaker_role_ref).content)

\* The step the next execute_next of a session runs and the steps that
\* follow it in order, as the engine resolves them.
StepToRun(sid) == FlowStepGet(flow_steps, sessions[sid].current_step_id)

RemainingSteps(sid) ==
    LET all == SortByOrder(LiveSteps(sid))
    IN { <<all[i].order, all[i].speaker_role_ref, all[i].task_type>> :
           i \in { j \in 1..Len(all) : \E r \in StepToRun(sid) : all[j].order > r.order } }

\* C10: once a session exists, editing its template (update_template,
\* delete_template) changes neither the step its next execute_next runs nor
\* the steps remaining after it.
C10_EditsLeaveSessionsAlone ==
    [][ last'.op \in {"update_template", "delete_template"} =>
          \A sid \in 1..Len(sessions) :
             sessions[sid].status \in {"running", "paused"} =>
                /\ StepToRun(sid)' = StepToRun(sid)
                /\ RemainingSteps(sid)' = RemainingSteps(sid)
      ]_vars

\* The Messages of a session in listing order, and what a fork must keep of
\* each of them.
Listing(msgs, sid) == Ascending(SessionMessageIds(msgs, sid))

Kept(m) == <<m.content, m.round_index, m.section>>

KeptOf(msgs, ids) == [k \in 1..Len(ids) |-> Kept(msgs[ids[k]])]

PositionIn(ids, id) == CHOOSE k \in 1..Len(ids) : ids[k] = id

C12_ForkNotFound ==
    [][ (/\ last'.op = "fork"
         /\ \/ ~SessionExists(last'.sid)
            \/ last'.message_id \notin SessionMessageIds(messages, last'.sid))
        => /\ ~last'.ok
           /\ last'.exc = "SessionNotFoundError"
           /\ last'.error_code = "NOT_FOUND"
           /\ UNCHANGED SessionTables
      ]_vars

\* C12, the part the code keeps: such a fork fails and creates nothing.
C12_FailedForkCreatesNothing ==
    [][ (/\ last'.op = "fork"
         /\ \/ ~SessionExists(last'.sid)
            \/ last'.message_id \notin SessionMessageIds(messages, last'.sid))
        => (~last'.ok /\ UNCHANGED SessionTables)
      ]_vars

\* A fork of a session refused for a cut message of another session.
C12_OtherSessionCut ==
    /\ last.op = "fork" /\ ~last.ok
    /\ SessionExists(last.sid)
    /\ last.message_id \in 1..Len(messages)
    /\ messages[last.message_id].session_id # last.sid

\* The order values of a template's stored steps are exactly 1..N, N >= 1.
ContiguousFromOne(rows) ==
    /\ rows # {}
    /\ { r.order : r \in rows } = 1..Cardinality(rows)

\* C13: every template accepted by create_template, and every step list
\* accepted by update_template, has order values that are exactly the
\* range 1..N with N >= 1; an empty list, a duplicate or a gap is rejected.
C13_AcceptedOrders ==
    [][ (/\ last'.ok
         /\ \/ last'.op = "create_template"
            \/ /\ last'.op = "update_template"
               /\ TemplateSteps(flow_steps', last'.template_id)
                    # TemplateSteps(flow_steps, last'.template_id))
        => ContiguousFromOne(TemplateSteps(flow_steps', last'.template_id))
      ]_vars

\* C13, the part the code keeps: the steps stored by an accepted create or
\* update are none at all (create with an empty list) or numbered 1..N.
C13_StoredOrders ==
    [][ (last'.ok /\ last'.op \in {"create_template", "update_template"})
        => \/ TemplateSteps(flow_steps', last'.template_id)
               = TemplateSteps(flow_steps, last'.template_id)
           \/ ContiguousFromOne(TemplateSteps(flow_steps', last'.template_id))
      ]_vars

\* C14: when step validation fails in create_template or update_template,
\* the stored templates and steps are exactly as before the call (no new
\* template, the previous fields, the previous steps with their ids).
C14_RejectedRequestStoresNothing ==
    [][ (/\ last'.op \in {"create_template", "update_template"}
         /\ last'.exc = "StepValidationError")
        => UNCHANGED <<flow_templates, flow_steps>> ]_vars

\* A rejected update of an active template that has two steps.
C14_Witness ==
    /\ last.op = "update_template" /\ last.exc = "StepValidationError"
    /\ Cardinality(TemplateSteps(flow_steps, last.template_id)) = 2
    /\ \E t \in flow_templates : t.id = last.template_id /\ t.is_active

\* A rejected create.
C14_WitnessCreate ==
    /\ last.op = "create_template" /\ last.exc = "StepValidationError"
    /\ Cardinality(flow_templates) = 1

\* The last n entries of a sequence, all of it when it is shorter.
LastN(seq, n) == SubSeq(seq, Max({1, Len(seq) - n + 1}), Len(seq))

\* The sessions that execute_next would run a step of the given scope for.
AboutToRun(sid, scope) ==
    /\ sessions[sid].status = "running"
    /\ StepToRun(sid) # {}
    /\ \A st \in StepToRun(sid) : st.context_scope = scope

\* C15: for a step with scope last_n_messages the selected context is the n
\* most recent messages of the session, all of them when there are fewer,
\* oldest first.
C15_LastNContext ==
    \A sid \in 1..Len(sessions) :
        AboutToRun(sid, "last_n_messages") =>
            \A st \in StepToRun(sid) :
                \E r \in {select_context_messages(sessions[sid], st, messages, session_roles)} :
                    /\ ~r.raised
                    /\ r.ids = LastN(Listing(messages, sid), st.context_param.value.n)

\* C16: for a step with scope last_round the selected context is the
\* session's messages of round current_round - 1, oldest first, empty when
\* there is none, and selecting it does not fail.
C16_LastRoundContext ==
    \A sid \in 1..Len(sessions) :
        AboutToRun(sid, "last_round") =>
            \A st \in StepToRun(sid) :
                \E r \in {select_context_messages(sessions[sid], st, messages, session_roles)} :
                    /\ ~r.raised
                    /\ r.ids = Ascending({ i \in SessionMessageIds(messages, sid) :
                                             messages[i].round_index
                                                 = sessions[sid].current_round - 1 })

\* Where the last_round selection has no previous round to read it answers
\* the empty list.
C16_EmptyWithoutPreviousRound ==
    \A sid \in 1..Len(sessions) :
        ( /\ AboutToRun(sid, "last_round")
          /\ \A i \in SessionMessageIds(messages, sid) :
                 messages[i].round_index # sessions[sid].current_round - 1 ) =>
            \A st \in StepToRun(sid) :
                select_context_messages(sessions[sid], st, messages, session_roles)
                    = [raised |-> FALSE, ids |-> <<>>]

\* C17: with every execute_next call run to completion before the next one
\* begins, and the template left as it was, no two messages of a session have
\* the same round and the same step.
C17_RoundStepUnique ==
    edits = 0 =>
        \A sid \in 1..Len(sessions) :
            \A i, j \in SessionMessageIds(messages, sid) :
                ( /\ messages[i].round_index = messages[j].round_index
                  /\ messages[i].step_id = messages[j].step_id ) => i = j

\* The request of worker w commits its step.
Commits(w) == inflight[w].open /\ ~inflight'[w].open /\ last'.ok

\* Since the request of worker w read the session, another request that
\* had read the same step, round and count has committed its message.
Overtaken(w) ==
    /\ sessions[inflight[w].sid].executed_steps_count
           = inflight[w].session.executed_steps_count + 1
    /\ \E i \in SessionMessageIds(messages, inflight[w].sid) :
          /\ i > inflight[w].seen
          /\ messages[i].step_id = inflight[w].step.id
          /\ messages[i].round_index = inflight[w].session.current_round

\* C18: without a lock per session, when two execute_next calls have read
\* the same current step and round and the second of them commits after the
\* first, a second message is recorded for that step and round while the
\* current step and the count of executed steps stay as the first commit
\* left them, the count being then below the number of messages.
C18_LostUpdate ==
    [][ \A w \in Workers :
          (inflight[w].open /\ Commits(w) /\ Overtaken(w)) =>
              \E sid \in {inflight[w].sid} :
                  /\ Len(messages') = Len(messages) + 1
                  /\ messages'[Len(messages')].session_id = sid
                  /\ messages'[Len(messages')].step_id = inflight[w].step.id
                  /\ messages'[Len(messages')].round_index
                         = inflight[w].session.current_round
                  /\ sessions'[sid].executed_steps_count = sessions[sid].executed_steps_count
                  /\ sessions'[sid].current_step_id = sessions[sid].current_step_id
                  /\ sessions'[sid].executed_steps_count
                         < Cardinality(SessionMessageIds(messages', sid))
      ]_vars

\* Two requests have committed after reading the same step and round: two
\* messages for one step of round 1 and an executed-step count of 1.
C18_Witness ==
    /\ last.op = "execute_next" /\ last.ok
    /\ \A w \in Workers : ~inflight[w].open
    /\ \E sid \in 1..Len(sessions) :
          /\ sessions[sid].executed_steps_count = 1
          /\ Cardinality(SessionMessageIds(messages, sid)) = 2
          /\ \A i, j \in SessionMessageIds(messages, sid) :
                 /\ messages[i].step_id = messages[j].step_id
                 /\ messages[i].round_index = messages[j].round_index
          /\ Cardinality(TemplateSteps(flow_steps, sessions[sid].flow_template_id)) = 2
          /\ sessions[sid].current_step_id
                 = SortByOrder(TemplateSteps(flow_steps, sessions[sid].flow_template_id))[2].id

\* What the store holds of session t: its row, its SessionRoles, its
\* messages and its log entries.
SessionView(rows, sroles, msgs, logs, t) ==
    [ session |-> rows[t],
      roles |-> { r \in sroles : r.session_id = t },
      message_ids |-> SessionMessageIds(msgs, t),
      messages |-> [ i \in SessionMessageIds(msgs, t) |-> msgs[i] ],
      logs |-> { l \in logs : l.session_id = t } ]

SessionOps == {"execute_next", "start", "pause", "resume", "finish", "fork"}

\* C19: execute_next, start, pause, resume, finish and fork applied to one
\* session leave the row, the SessionRoles, the messages and the log entries
\* of every other existing session as they were, and fork leaves its source
\* session as it was too.
C19_SessionsIndependent ==
    [][ last'.op \in SessionOps =>
          \A t \in 1..Len(sessions) :
              (last'.sid # t \/ last'.op = "fork") =>
                  SessionView(sessions', session_roles', messages', step_execution_logs', t)
                      = SessionView(sessions, session_roles, messages, step_execution_logs, t)
      ]_vars

\* A step of the forked session has been executed while the source session,
\* which has a message of its own, is running.
C19_Witness ==
    /\ Len(sessions) = 2
    /\ last.op = "execute_next" /\ last.ok /\ last.sid = 2
    /\ sessions[1].status = "running"
    /\ SessionMessageIds(messages, 1) # {}
    /\ Cardinality(SessionMessageIds(messages, 2)) = 2
    /\ { r \in session_roles : r.session_id = 1 } # {}

\* A fork has succeeded on a source session that has run a step.
C19_WitnessFork ==
    /\ Len(sessions) = 2
    /\ last.op = "fork" /\ last.ok /\ last.sid = 1
    /\ sessions[1].executed_steps_count > 0
    /\ { r \in session_roles : r.session_id = 1 } # {}

\* C20: every successful execute_next adds exactly one log entry, for the
\* session and the step executed.
C20_StepLogged ==
    [][ (last'.op = "execute_next" /\ last'.ok) =>
          /\ Cardinality(step_execution_logs' \ step_execution_logs) = 1
          /\ \A l \in step_execution_logs' \ step_execution_logs :
                 l.session_id = last'.sid /\ l.step_id = last'.step
      ]_vars

LogMoves ==
    { <<"pending", "running">>, <<"running", "completed">>, <<"running", "failed">>,
      <<"running", "timeout">>, <<"running", "skipped">> }

\* C21: a log entry is created pending and its status only moves from
\* pending to running and from running to completed, failed, timeout or
\* skipped.
C21_StatusMoves ==
    [][ \A m \in step_execution_logs' :
          IF \E l \in step_execution_logs : l.id = m.id
          THEN \A l \in step_execution_logs :
                   (l.id = m.id /\ l.status # m.status) => <<l.status, m.status>> \in LogMoves
          ELSE m.status = "pending"
      ]_vars

\* Every new log entry is pending.
C21_CreatedPending ==
    [][ \A m \in step_execution_logs' :
          (~ \E l \in step_execution_logs : l.id = m.id) => m.status = "pending"
      ]_vars

\* The entries of a session that are not completed.
NotCompleted(sid) ==
    { l \in step_execution_logs : l.session_id = sid /\ l.status # "completed" }

\* C22: the progress of a session reports the number of its log entries in
\* each status and, as current, the entry of highest execution order among
\* those not completed; with every entry completed the current one is not a
\* non-completed entry, and with no entries there is none.
C22_Progress ==
    last.op = "progress" =>
        \E mine \in {{ l \in step_execution_logs : l.session_id = last.sid }} :
            /\ last.summary.total_steps = Cardinality(mine)
            /\ last.summary.completed_steps
                   = Cardinality({ l \in mine : l.status = "completed" })
            /\ last.summary.failed_steps = Cardinality({ l \in mine : l.status = "failed" })
            /\ last.summary.running_steps = Cardinality({ l \in mine : l.status = "running" })
            /\ last.summary.pending_steps = Cardinality({ l \in mine : l.status = "pending" })
            /\ (mine = {} => last.summary.current_step = None)
            /\ IF NotCompleted(last.sid) = {}
               THEN \A l \in mine : l.id = last.summary.current_step => l.status = "completed"
               ELSE \E c \in NotCompleted(last.sid) :
                        /\ last.summary.current_step = c.id
                        /\ \A l \in NotCompleted(last.sid) :
                               l.execution_order <= c.execution_order

\* The counts of the progress summary are those of the session's entries.
C22_Counts ==
    last.op = "progress" =>
        \E mine \in {{ l \in step_execution_logs : l.session_id = last.sid }} :
            /\ last.summary.total_steps = Cardinality(mine)
            /\ last.summary.completed_steps
                   = Cardinality({ l \in mine : l.status = "completed" })
            /\ last.summary.failed_steps = Cardinality({ l \in mine : l.status = "failed" })
            /\ last.summary.running_steps = Cardinality({ l \in mine : l.status = "running" })
            /\ last.summary.pending_steps = Cardinality({ l \in mine : l.status = "pending" })
            /\ (mine = {} => last.summary.current_step = None)

\* C23: executed_steps_count grows by exactly 1 on each successful
\* execute_next, is left as it was by a failed execute_next and by start,
\* pause, resume and finish, and for a created session equals the number of
\* its messages.
C23_ExecutedStepsCount ==
    [][ /\ \A sid \in 1..Len(sessions) :
              Len(sessions') >= sid =>
                  sessions'[sid].executed_steps_count =
                      IF last'.op = "execute_next" /\ last'.ok /\ last'.sid = sid
                      THEN sessions[sid].executed_steps_count + 1
                      ELSE sessions[sid].executed_steps_count
        /\ \A sid \in 1..Len(sessions') :
              sessions'[sid].executed_steps_count
                  = Cardinality(SessionMessageIds(messages', sid))
      ]_vars

\* Two steps have been executed, the second one just now.
C23_Witness ==
    /\ last.op = "execute_next" /\ last.ok
    /\ sessions[last.sid].executed_steps_count = 2
    /\ Cardinality(SessionMessageIds(messages, last.sid)) = 2

\* An execute_next has failed on a running session that had executed a step.
C23_WitnessFailed ==
    /\ last.op = "execute_next" /\ ~last.ok /\ last.step # None
    /\ sessions[last.sid].status = "running"
    /\ sessions[last.sid].executed_steps_count = 1

C25_RunningNotDeleted ==
    [][ /\ ( /\ last'.op = "delete"
             /\ SessionExists(last'.sid)
             /\ sessions[last'.sid].status = "running" ) =>
               /\ ~last'.ok
               /\ last'.error_code = "INVALID_STATE"
               /\ UNCHANGED <<sessions, session_roles, messages>>
        /\ \A sid \in 1..Len(sessions) :
               sid > Len(sessions') => sessions[sid].status # "running"
      ]_vars

\* A delete request has been rejected for a running session with a message.
C25_Witness ==
    /\ last.op = "delete" /\ ~last.ok /\ last.error_code = "INVALID_STATE"
    /\ SessionExists(last.sid)
    /\ sessions[last.sid].status = "running"
    /\ SessionMessageIds(messages, last.sid) # {}

\* A session that was paused has been deleted.
C25_WitnessDeleted ==
    /\ last.op = "delete" /\ last.ok
    /\ sessions = <<>>

\* C26: after set(k, v, ttl) the call reports success, get(k) returns a value
\* equal to v and exists(k) is true; after delete(k) the call reports
\* success, exists(k) is false and get(k) returns the default; for every key
\* and JSON-serializable value, before expiry.
C26_CacheRoundTrip ==
    [][ /\ last'.op = "cache_set" =>
              /\ last'.returned
              /\ cache_get(cache', clock', last'.key, PyNone) = last'.value
              /\ cache_exists(cache', clock', last'.key)
        /\ last'.op = "cache_delete" =>
              /\ last'.returned
              /\ ~cache_exists(cache', clock', last'.key)
              /\ cache_get(cache', clock', last'.key, PyNone) = PyNone
      ]_vars

\* Values that json.loads gives back as they were written.
JsonStable(v) ==
    /\ v.py # "tuple"
    /\ \A i \in DOMAIN v.keys : v.keys[i].py = "str"

\* With Redis answering, a set of a value that JSON keeps reports success
\* and is read back equal; a delete of a key that is held reports success;
\* after any delete the key is gone.
C26_RoundTripWithRedis ==
    [][ /\ (last'.op = "cache_set" /\ cache.enabled /\ JsonStable(last'.value)) =>
              /\ last'.returned
              /\ cache_get(cache', clock', last'.key, PyNone) = last'.value
              /\ cache_exists(cache', clock', last'.key)
        /\ last'.op = "cache_delete" =>
              /\ ~cache_exists(cache', clock', last'.key)
              /\ cache_get(cache', clock', last'.key, PyNone) = PyNone
              /\ cache_exists(cache, clock, last'.key) => last'.returned
      ]_vars

\* A value is held and read back.
C26_WitnessHeld ==
    /\ last.op = "cache_get"
    /\ cache_exists(cache, clock, last.key)
    /\ last.value = PyDict(<<PyAtom("str", "message")>>, <<PyAtom("str", "a")>>)

\* C27: check_rate_limit for an identifier that is not blocked and whose
\* accumulated weighted usage plus the request's effective weight does not
\* exceed max_requests returns allowed, not blocked and a remaining between
\* 0 and max_requests that equals max_requests minus the usage after this
\* request; the usage statistics then report that usage and that remaining.
C27_AllowedWithinLimit ==
    [][ \A t \in LimitTypes, i \in Identifiers :
          LET rule == rules(t)
              before2 == usage_or_default(cache, clock, usage_key(rule, i)).items[2].lit
              after2 == before2 + last'.weight * rule.penalty2
              stats == get_usage_stats(cache', clock', t, i)
          IN  ( /\ last'.op = "check_rate_limit"
                /\ last'.limit_type = t /\ last'.identifier = i
                /\ ~is_blocked(cache, clock, rule, i)
                /\ after2 <= 2 * rule.max_requests )
              => /\ last'.result.allowed
                 /\ ~last'.result.blocked
                 /\ last'.result.remaining \in 0..rule.max_requests
                 /\ 2 * last'.result.remaining = 2 * rule.max_requests - after2
                 /\ stats.total_weighted_usage2 = after2
                 /\ stats.remaining2 = 2 * last'.result.remaining
      ]_vars

\* Such a request is always allowed, not blocked, and given a remaining
\* between 0 and max_requests that is max_requests minus the usage after it,
\* rounded down.
C27_AllowedRoundedDown ==
    [][ \A t \in LimitTypes, i \in Identifiers :
          LET rule == rules(t)
              before2 == usage_or_default(cache, clock, usage_key(rule, i)).items[2].lit
              after2 == before2 + last'.weight * rule.penalty2
          IN  ( /\ last'.op = "check_rate_limit"
                /\ last'.limit_type = t /\ last'.identifier = i
                /\ ~is_blocked(cache, clock, rule, i)
                /\ after2 <= 2 * rule.max_requests )
              => /\ last'.result.allowed
                 /\ ~last'.result.blocked
                 /\ last'.result.remaining \in 0..rule.max_requests
                 /\ last'.result.remaining = (2 * rule.max_requests - after2) \div 2
      ]_vars

\* A request is refused over the limit, and a later one while blocked.
C27_WitnessBlocked ==
    /\ last.op = "check_rate_limit"
    /\ ~last.result.allowed
    /\ last.result.retry_after < rules(last.limit_type).block_duration

\* C28: loop/exit misconfiguration or malformed generated content never
\* makes execute_next fail: when the Message just produced is not valid
\* JSON, or is valid JSON that is not an object, or the loop/exit
\* configuration has an unexpected shape, the exit condition evaluates to
\* not satisfied and the step completes and advances normally.
C28_MisconfigurationNeverFails ==
    [][ ( /\ last'.op = "execute_next"
          /\ SessionExists(last'.sid)
          /\ sessions[last'.sid].status = "running" )
        => /\ last'.ok
           /\ ~last'.exit_met
           /\ Len(messages') = Len(messages) + 1
           /\ sessions'[last'.sid].executed_steps_count
                = sessions[last'.sid].executed_steps_count + 1
      ]_vars

\* The exit condition is never met by such a step, and a step that is not
\* the last of its template, or whose loop bound is a number or missing,
\* completes.
C28_MalformedContentNotMet ==
    [][ ( /\ last'.op = "execute_next"
          /\ SessionExists(last'.sid)
          /\ sessions[last'.sid].status = "running" )
        => /\ ~last'.exit_met
           /\ (\A st \in flow_steps :
                  st.id = sessions[last'.sid].current_step_id
                     => ~loop_bound_raises(st))
                => /\ last'.ok
                   /\ Len(messages') = Len(messages) + 1
      ]_vars

\* A step whose exit configuration is set and whose content is a JSON list
\* has completed.
C28_WitnessList ==
    /\ last.op = "execute_next" /\ last.ok
    /\ messages[Len(messages)].content = "json_list"
    /\ \E st \in flow_steps : st.id = last.step /\ st.logic_config = ExitText

\* C29: the round counter increases by exactly 1 when the executed step's
\* task kind is summarize or conclude and is unchanged by every other
\* successful step; the Message produced by a step carries the round that
\* was in effect before that step's own increment, and the loop-bound check
\* of that same step sees the round after the increment.
ClosingTasks == {"summarize", "conclude"}

C29_RoundCounter ==
    [][ (last'.op = "execute_next" /\ last'.ok) =>
          \A st \in flow_steps : st.id = last'.step =>
            LET before == sessions[last'.sid]
                after == sessions'[last'.sid]
                all_steps == SortByOrder(TemplateSteps(flow_steps, before.flow_template_id))
                loop_config == loop_config_dict(st)
                max_loops == IF loop_config.max_loops = Absent THEN 1
                             ELSE loop_config.max_loops
            IN  /\ after.current_round =
                     before.current_round + (IF st.task_type \in ClosingTasks THEN 1 ELSE 0)
                /\ Len(messages') = Len(messages) + 1
                /\ messages'[Len(messages')].round_index = before.current_round
                /\ (all_steps # <<>> /\ all_steps[Len(all_steps)].id = st.id
                      /\ ~last'.exit_met)
                     => (after.status = "finished"
                           <=> ~(loop_config.enabled /\ after.current_round < max_loops))
      ]_vars

\* A conclude step that is the last of its template runs at the round just
\* below its bound of 3: its Message carries round 2 and the session ends.
C29_Witness ==
    /\ last.op = "execute_next" /\ last.ok
    /\ \E st \in flow_steps :
          /\ st.id = last.step
          /\ st.task_type = "conclude"
          /\ loop_config_dict(st).enabled /\ loop_config_dict(st).max_loops = 3
    /\ messages[Len(messages)].round_index = 2
    /\ sessions[last.sid].current_round = 3
    /\ sessions[last.sid].status = "finished"

\* A step of another task kind has run and left the round as it was.
C29_WitnessUnchanged ==
    /\ last.op = "execute_next" /\ last.ok
    /\ \E st \in flow_steps : st.id = last.step /\ st.task_type = "review_answer"
    /\ messages[Len(messages)].round_index = sessions[last.sid].current_round

\* C30: for a role-filter scope (a single reference or a list), the context
\* is exactly the session's Messages whose speaker is a session role
\* resolving to one of the named references, oldest first; references that
\* do not resolve in the session are ignored, and when none resolves (or
\* the scope has an unrecognized shape) the context is empty and the step
\* still executes without error.
BaseScopes == {"none", "last_message", "last_round", "last_n_messages", "all"}

\* The references a role-filter scope names.
NamedReferences(scope) ==
    CASE scope \in RoleRefs -> {scope}
      [] scope = "[\"host\", \"ghost\"]" -> {"host", "ghost"}
      [] scope = "[\"guest\", \"host\"]" -> {"guest", "host"}
      [] scope = "[\"ghost\"]" -> {"ghost"}
      [] OTHER -> {}

IsOldestFirst(ids) == \A i, j \in 1..Len(ids) : i < j => ids[i] < ids[j]

C30_RoleFilterContext ==
    [][ ( /\ last'.op = "execute_next"
          /\ SessionExists(last'.sid)
          /\ sessions[last'.sid].status = "running" )
        => \A st \in flow_steps :
             (st.id = sessions[last'.sid].current_step_id
                /\ st.context_scope \notin BaseScopes)
             => LET resolving ==
                        { r \in session_roles' :
                            /\ r.session_id = last'.sid
                            /\ r.role_ref \in NamedReferences(st.context_scope) }
                    spoken ==
                        { i \in 1..Len(messages) :
                            /\ messages[i].session_id = last'.sid
                            /\ \E r \in resolving :
                                  messages[i].speaker_session_role_id = r.id }
                IN  /\ last'.ok
                    /\ Range(last'.context) = spoken
                    /\ Len(last'.context) = Cardinality(spoken)
                    /\ IsOldestFirst(last'.context)
      ]_vars

\* A step whose scope lists a reference that resolves and one that does
\* not has run with a context that holds some of the session's Messages,
\* not all of them.
C30_Witness ==
    /\ last.op = "execute_next" /\ last.ok
    /\ \E st \in flow_steps :
          st.id = last.step /\ st.context_scope = "[\"host\", \"ghost\"]"
    /\ Len(last.context) = 2
    /\ Cardinality(SessionMessageIds(messages, last.sid)) = 4

\* A step whose scope resolves to no session role has run with an empty
\* context while the session held Messages.
C30_WitnessEmpty ==
    /\ last.op = "execute_next" /\ last.ok
    /\ \E st \in flow_steps :
          st.id = last.step /\ st.context_scope \in {"[\"ghost\"]", "{\"host\": 1}", "moderator"}
    /\ last.context = <<>>
    /\ Cardinality(SessionMessageIds(messages, last.sid)) >= 2

\* C31: the speaker of a step is resolved by the first strategy that hits,
\* in the order: the session's role mapping, exact role-name match,
\* substring role-name match; a later strategy is never used when an
\* earlier one resolves.  If none resolves, execute_next fails with
\* FlowExecutionError and the session, its SessionRoles and its Messages are
\* unchanged.
ResolvedSpeaker(sid, ref) ==
    LET mapped == { r.role_id : r \in { q \in session_roles :
                                          q.session_id = sid /\ q.role_ref = ref } }
        exact == { r.id : r \in { q \in Roles : q.name = ref } }
        fuzzy == { r.id : r \in { q \in Roles : Contains(q.name, ref) } }
    IN IF mapped # {} THEN mapped
       ELSE IF exact # {} THEN exact
       ELSE fuzzy

C31_SpeakerResolution ==
    [][ ( /\ last'.op = "execute_next"
          /\ SessionExists(last'.sid)
          /\ sessions[last'.sid].status = "running" )
        => \A st \in flow_steps :
             st.id = sessions[last'.sid].current_step_id
             => LET sid == last'.sid
                    ref == st.speaker_role_ref
                    role == get_role_for_execution(session_roles, sid, ref)
                IN  /\ { r.id : r \in role } = ResolvedSpeaker(sid, ref)
                    /\ IF ResolvedSpeaker(sid, ref) = {}
                       THEN /\ ~last'.ok
                            /\ last'.exc = "FlowExecutionError"
                            /\ UNCHANGED SessionTables
                       ELSE /\ last'.ok
                            /\ Len(messages') = Len(messages) + 1
                            /\ \E r \in session_roles' :
                                  /\ r.id = messages'[Len(messages')].speaker_session_role_id
                                  /\ r.session_id = sid /\ r.role_ref = ref
                                  /\ r.role_id \in ResolvedSpeaker(sid, ref)
      ]_vars

\* A step spoken by "host" has run in a session that maps "host" to the
\* role named guest, while a role named host exists.
C31_Witness ==
    /\ last.op = "execute_next" /\ last.ok
    /\ \E st \in flow_steps : st.id = last.step /\ st.speaker_role_ref = "host"
    /\ \E r \in session_roles :
          /\ r.id = messages[Len(messages)].speaker_session_role_id
          /\ r.role_ref = "host" /\ r.role_id = 2

\* A step spoken by "gue" has run with no mapping: the role named guest
\* was found by a part of its name.
C31_WitnessSubstring ==
    /\ last.op = "execute_next" /\ last.ok
    /\ \E st \in flow_steps : st.id = last.step /\ st.speaker_role_ref = "gue"
    /\ \E r \in session_roles :
          /\ r.id = messages[Len(messages)].speaker_session_role_id
          /\ r.role_ref = "gue" /\ r.role_id = 2
    /\ Cardinality(session_roles) = 1

\* A step spoken by "ghost" has failed with nothing resolving.
C31_WitnessUnresolved ==
    /\ last.op = "execute_next" /\ ~last.ok /\ last.exc = "FlowExecutionError"
    /\ \E st \in flow_steps : st.id = last.step /\ st.speaker_role_ref = "ghost"

\* C32: the execution log is append-only: once created, an entry is never
\* deleted by any operation of the system, whatever its status or age.
C32_AppendOnly ==
    [][ \A l \in step_execution_logs : \E m \in step_execution_logs' : m.id = l.id ]_vars

\* The cleanup deletes only entries that are completed or failed and older
\* than the days to keep, and no other operation deletes an entry.
C32_OnlyOldClosedDeleted ==
    [][ \A l \in step_execution_logs :
          (~ \E m \in step_execution_logs' : m.id = l.id)
          => /\ last'.op = "cleanup"
             /\ l.status \in {"completed", "failed"}
             /\ l.created_at + SecondsPerDay < clock
      ]_vars

\* A next pointer that names no row of flow_steps.
Unresolved(steps, st) ==
    st.next_step_id # None /\ ~ \E q \in steps : q.id = st.next_step_id

\* C33: a step whose explicit next pointer does not resolve to an existing
\* step is accepted when the template is built, and when that step executes
\* the pointer gives a terminal outcome: no next step, the session finishes,
\* and there is no execution error.
C33_UnresolvedPointerTerminal ==
    [][ /\ (last'.op = "create_template"
              /\ \E st \in flow_steps' \ flow_steps : Unresolved(flow_steps', st))
          => last'.ok
        /\ (last'.op = "execute_next"
              /\ \E st \in flow_steps : st.id = last'.step /\ Unresolved(flow_steps, st))
          => /\ last'.ok
             /\ last'.is_finished
             /\ sessions'[last'.sid].status = "finished"
      ]_vars

\* What the engine does with the pointer: nothing.  A step that is not the
\* last of its template hands over to the step after it in order, the last
\* step of a template without a loop ends the session, and a template with
\* unresolved pointers is stored as given.
C33_PointerIgnored ==
    [][ /\ (last'.op = "create_template"
              /\ \E st \in flow_steps' \ flow_steps : Unresolved(flow_steps', st))
          => last'.ok
        /\ (last'.op = "execute_next" /\ last'.ok)
          => \A st \in flow_steps : st.id = last'.step =>
               LET all_steps ==
                     SortByOrder(TemplateSteps(flow_steps, sessions[last'.sid].flow_template_id))
               IN IF st.order < Len(all_steps)
                  THEN /\ sessions'[last'.sid].current_step_id = all_steps[st.order + 1].id
                       /\ sessions'[last'.sid].status = "running"
                  ELSE /\ last'.is_finished
                       /\ sessions'[last'.sid].status = "finished"
      ]_vars

\* A first step whose pointer names no step has run and the session goes on
\* with the second step.
C33_WitnessGoesOn ==
    /\ last.op = "execute_next" /\ last.ok
    /\ \E st \in flow_steps :
          /\ st.id = last.step /\ st.order = 1 /\ Unresolved(flow_steps, st)
          /\ \E q \in flow_steps : q.flow_template_id = st.flow_template_id /\ q.order = 2
    /\ sessions[last.sid].status = "running"

\* C34: when the generation call of a step times out, the session is left
\* in its pre-step state (same current step, round and executed-step count,
\* no new Message), and the log entry of the step in flight is marked timed
\* out.
C34_TimeoutLeavesPreStepState ==
    [][ (last'.op = "execute_next" /\ last'.adapter = "timeout") =>
          /\ sessions' = sessions
          /\ messages' = messages
          /\ ((SessionExists(last'.sid) /\ last'.ok)
                => \E l \in step_execution_logs' :
                      l.session_id = last'.sid /\ l.status = "timeout")
      ]_vars

\* What a timeout does: the step executes with the prompt text as its
\* content whenever it would have executed with an answer, and no log entry
\* is written.
C34_TimeoutExecutesWithPrompt ==
    [][ (last'.op = "execute_next" /\ last'.adapter = "timeout") =>
          /\ step_execution_logs' = {}
          /\ \A c \in Contents :
               \E good \in {execute_next_step(last'.sid, c, "none")} :
                  IF good.out.ok
                  THEN /\ last'.ok
                       /\ messages' = [good.messages EXCEPT
                                         ![Len(messages')].content = build_simple_prompt]
                       /\ sessions' = good.sessions
                  ELSE /\ ~last'.ok
                       /\ sessions' = sessions /\ messages' = messages
      ]_vars

\* The edges of the session state machine: start, pause, resume, and finish
\* from every state that is not finished.
StatusEdges ==
    { <<"not_started", "running">>, <<"running", "paused">>, <<"paused", "running">>,
      <<"not_started", "finished">>, <<"running", "finished">>, <<"paused", "finished">> }

\* C35: every change of a session's status made by an operation exposed on
\* sessions follows an edge of the state machine; no operation takes a
\* finished session back to running, paused or not-started, and no
\* operation makes a session running without a current step set.
C35_StatusFollowsEdges ==
    [][ \A sid \in 1..Len(sessions) :
          /\ sessions'[sid].status # sessions[sid].status
               => <<sessions[sid].status, sessions'[sid].status>> \in StatusEdges
          /\ (sessions[sid].status # "running" /\ sessions'[sid].status = "running")
               => sessions'[sid].current_step_id # None
      ]_vars

\* Every operation but the update endpoint follows the edges, and a session
\* a fork creates is not-started.
C35_EdgesButForUpdate ==
    [][ last'.op # "update_session" =>
          /\ \A sid \in 1..Len(sessions) :
               sessions'[sid].status # sessions[sid].status
                 => <<sessions[sid].status, sessions'[sid].status>> \in StatusEdges
          /\ \A sid \in (1..Len(sessions')) \ (1..Len(sessions)) :
               sessions'[sid].status = "not_started"
      ]_vars

\* The part of C35 about finished sessions alone: no operation changes the
\* status of a finished session.
C35_FinishedStays ==
    [][ \A sid \in 1..Len(sessions) :
          sessions[sid].status = "finished" => sessions'[sid].status = "finished" ]_vars

\* The Messages of a session, in order.
MessagesOf(msgs, sid) == SelectSeq(msgs, LAMBDA m : m.session_id = sid)

\* C36: finished is absorbing under the engine's own operations: once a
\* session is finished, no start, pause, resume, finish or execute_next
\* changes its status, current step, round, executed-step count or
\* Messages; and whenever the status is finished the end time is set.
C36_FinishedAbsorbing ==
    [][ /\ \A sid \in 1..Len(sessions) :
             sessions[sid].status = "finished" =>
               /\ sessions'[sid].status = "finished"
               /\ sessions'[sid].current_step_id = sessions[sid].current_step_id
               /\ sessions'[sid].current_round = sessions[sid].current_round
               /\ sessions'[sid].executed_steps_count = sessions[sid].executed_steps_count
               /\ MessagesOf(messages', sid) = MessagesOf(messages, sid)
        /\ \A sid \in 1..Len(sessions') :
             sessions'[sid].status = "finished" => sessions'[sid].ended_at # None
      ]_vars

\* execute_next has been refused on a session that finished by running its
\* template to the end.
C36_Witness ==
    /\ last.op = "execute_next" /\ ~last.ok /\ last.exc = "FlowExecutionError"
    /\ SessionExists(last.sid)
    /\ sessions[last.sid].status = "finished"
    /\ sessions[last.sid].executed_steps_count >= 1
    /\ MessagesOf(messages, last.sid) # <<>>

\* start has been refused on a finished session.
C36_WitnessStart ==
    /\ last.op = "start" /\ last.exc = "InvalidSessionStateError"
    /\ sessions[last.sid].status = "finished"
    /\ sessions[last.sid].ended_at # None

\* A session whose template ends in a step with loop enabled, a numeric
\* max-loops M and no exit condition, and that has executed as many steps as
\* M - spare passes over the whole template hold.
PassesUsedUp(sid, tasks, spare) ==
    LET all_steps == SortByOrder(TemplateSteps(flow_steps, sessions[sid].flow_template_id))
    IN /\ edits = 0
       /\ all_steps # <<>>
       /\ \E final \in {all_steps[Len(all_steps)]} :
             /\ final.task_type \in tasks
             /\ final.logic_config = NullText
             /\ loop_config_dict(final).enabled
             /\ loop_config_dict(final).max_loops > spare
             /\ sessions[sid].executed_steps_count
                  >= (loop_config_dict(final).max_loops - spare) * Len(all_steps)

\* C37: for every template whose last step has loop enabled with a finite
\* max-loops M and no exit condition, whatever the task kinds of its steps,
\* a started session whose execute_next calls all succeed is finished after
\* at most M passes over the template.
C37_LoopTerminates ==
    \A sid \in 1..Len(sessions) :
        PassesUsedUp(sid, valid_task_types, 0) => sessions[sid].status = "finished"

\* Where the last step is a summarize or conclude step, the two kinds after
\* which the round grows, the session is finished after M - 1 passes (the
\* round starts at 1 and the loop goes on while it is below M).
C37_ClosingLoopTerminates ==
    \A sid \in 1..Len(sessions) :
        PassesUsedUp(sid, ClosingTasks, 1) => sessions[sid].status = "finished"

\* A template of two steps that ends in a conclude step with max-loops 3
\* has been run twice.
C37_WitnessClosing ==
    \E sid \in 1..Len(sessions) :
        PassesUsedUp(sid, ClosingTasks, 1) /\ sessions[sid].executed_steps_count = 4

\* The ids of the SessionRoles of a session.
SessionRoleIds(sroles, sid) == { r.id : r \in { q \in sroles : q.session_id = sid } }

\* C38: in the session a fork creates, every copied Message's speaker role,
\* target role and reply-to reference point to SessionRoles and Messages of
\* the new session, or are empty, never to rows of the source session.
C38_ForkReferencesOwnRows ==
    [][ (last'.op = "fork" /\ last'.ok) =>
          \A i \in SessionMessageIds(messages', Len(sessions')) :
              /\ messages'[i].speaker_session_role_id
                   \in SessionRoleIds(session_roles', Len(sessions'))
              /\ messages'[i].target_session_role_id
                   \in {None} \cup SessionRoleIds(session_roles', Len(sessions'))
              /\ messages'[i].reply_to_message_id
                   \in {None} \cup SessionMessageIds(messages', Len(sessions'))
      ]_vars

\* What the copy does: the speaker is the new session's role of the same
\* reference, and target and reply-to hold the values of the source row.
C38_SpeakerRemappedOnly ==
    [][ (last'.op = "fork" /\ last'.ok) =>
          \E ids \in {messages_to_copy(messages, last'.sid, last'.message_id)} :
              \A k \in 1..Len(ids) :
                  /\ messages'[Len(messages) + k].session_id = Len(sessions')
                  /\ messages'[Len(messages) + k].speaker_session_role_id
                       \in SessionRoleIds(session_roles', Len(sessions'))
                  /\ messages'[Len(messages) + k].target_session_role_id
                       = messages[ids[k]].target_session_role_id
                  /\ messages'[Len(messages) + k].reply_to_message_id
                       = messages[ids[k]].reply_to_message_id
      ]_vars

\* C39: with caching enabled, a progress query returns logs and a summary
\* computed from the current log state, for the page, page size and detail
\* level requested; a result cached before a change of the logs, or cached
\* for another page size or detail level, is never served.
C39_ProgressIsCurrent ==
    [][ last'.op = "get_session_step_progress" =>
          last'.result = compute_step_progress(step_execution_logs', last'.sid,
                                               last'.include_details, last'.page,
                                               last'.per_page)
      ]_vars

\* What holds: a query that misses the cache returns the current state, and
\* start_, complete_ and fail_step_execution on an existing log leave no
\* cached progress of its session behind.
C39_StatusChangeInvalidates ==
    [][ /\ (last'.op = "get_session_step_progress" /\ ~last'.hit) =>
             last'.result = compute_step_progress(step_execution_logs', last'.sid,
                                                  last'.include_details, last'.page,
                                                  last'.per_page)
        /\ ( /\ last'.op \in {"start_step_execution", "complete_step_execution",
                              "fail_step_execution"}
             /\ last'.returned ) =>
             \A l \in step_execution_logs : l.id = last'.log_id =>
                 \A d \in BOOLEAN :
                     get_session_progress(cache', clock', l.session_id, d) = PyNone
      ]_vars

\* The case of create_step_log in C39: the query that follows a new log
\* entry returns the current state.
C39_CurrentAfterCreate ==
    [][ (last.op = "create_step_log" /\ last'.op = "get_session_step_progress") =>
          last'.result = compute_step_progress(step_execution_logs', last'.sid,
                                               last'.include_details, last'.page,
                                               last'.per_page)
      ]_vars

\* Twice the weighted requests of weight 1 an identifier has on record
\* within the window that ends now.
WindowUsage2(c, now, rule, identifier) ==
    Len(valid_requests(usage_or_default(c, now, usage_key(rule, identifier)).items[1].lit,
                       now - rule.window_seconds)) * rule.penalty2

\* C40: check_rate_limit denies a request and blocks the identifier only
\* when the weighted requests made by the identifier within the last
\* window_seconds, plus the current one, exceed max_requests; requests older
\* than the window do not count.
C40_BlockedOnlyOverWindow ==
    [][ \A t \in WindowTypes, i \in Identifiers :
          ( /\ last'.op = "check_rate_limit"
            /\ last'.limit_type = t /\ last'.identifier = i
            /\ ~is_blocked(cache, clock, rules(t), i)
            /\ ~last'.result.allowed )
          => WindowUsage2(cache, clock, rules(t), i) + last'.weight * rules(t).penalty2
               > 2 * rules(t).max_requests
      ]_vars

\* What decides: the total kept with the usage record, which grows with
\* every allowed request and is not reduced when requests leave the window.
\* A request of an identifier that is not blocked is denied, and the
\* identifier blocked, exactly when that total plus the request's effective
\* weight exceeds max_requests.
C40_BlockedOnRecordedTotal ==
    [][ \A t \in WindowTypes, i \in Identifiers :
          ( /\ last'.op = "check_rate_limit"
            /\ last'.limit_type = t /\ last'.identifier = i
            /\ cache.enabled
            /\ ~is_blocked(cache, clock, rules(t), i) )
          => /\ last'.result.allowed
               <=> usage_or_default(cache, clock, usage_key(rules(t), i)).items[2].lit
                     + last'.weight * rules(t).penalty2 <= 2 * rules(t).max_requests
             /\ ~last'.result.allowed => is_blocked(cache', clock', rules(t), i)
      ]_vars

====
